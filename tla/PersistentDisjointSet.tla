----------------------- MODULE PersistentDisjointSet ------------------------
(***************************************************************************)
(* persistent_disjoint_set<Elm> (src/data/persistent_disjoint_set.h): a    *)
(* union-find forest whose versions share one table, kept at the BASE and  *)
(* moved by reroot() as in PersistentMap.  An entry of the forest holds    *)
(* the parent of its element, the NEXT element of its class (every class   *)
(* is a circular list) and the height of its tree, a byte.                 *)
(*   ADD      my forest is my base's with the class {root} added           *)
(*   REM      my forest is my base's without it                            *)
(*   ADDTO    my forest is my base's with class `child` merged into `root` *)
(*   REMFROM  my forest is my base's before that merge                     *)
(* Nothing is compressed: find() climbs, and find_class() goes round the   *)
(* circular list, one step at a time.                                      *)
(*                                                                         *)
(* `content` is a history variable: the forest each version was made with. *)
(***************************************************************************)
EXTENDS Integers, Sequences, FiniteSets

CONSTANTS Node,         \* the version objects that can be allocated
          Elem,
          Out,          \* "no entry in the forest"
          NoNode, NoElem, NoForest,
          InitialForests  \* what the first version may be

Entry == [parent : Elem, next : Elem, height : 0 .. 255]

Forest == [Elem -> Entry \cup {Out}]

\* Parent and successor of an entry are entries.
Closed(f) == \A i \in Elem :
               f[i] # Out => f[f[i].parent] # Out /\ f[f[i].next] # Out

IsRoot(f, i) == f[i] # Out /\ f[i].parent = i

Members(f) == {i \in Elem : f[i] # Out}

\* R gives every element the root of its class.  Parents lead from an element
\* to its root, whatever set they are followed in, and the next fields to all
\* of its class, and to nothing else.
Rooted(f, R) ==
  /\ \A i \in Members(f) : /\ IsRoot(f, R[i])
                           /\ R[f[i].parent] = R[i]
                           /\ R[f[i].next] = R[i]
  /\ \A S \in SUBSET Members(f) : \A i \in S :
       /\ (\A k \in S : f[k].parent \in S) => R[i] \in S
       /\ (\A k \in S : f[k].next \in S) =>
            {j \in Members(f) : R[j] = R[i]} \subseteq S

\* An element is one higher than its highest child, and a class has room for
\* the height of its root.
HeightsFit(f, R) ==
  \A i \in Members(f) :
    /\ ~IsRoot(f, i) => f[i].height < f[f[i].parent].height
    /\ f[i].height > 0 =>
         \E j \in Members(f) \ {i} : /\ f[j].parent = i
                                     /\ f[j].height = f[i].height - 1
    /\ IsRoot(f, i) =>
         2 ^ f[i].height <= Cardinality({j \in Members(f) : R[j] = i})

\* A forest as add() and merge() make them.
BuiltUp(f) == /\ Closed(f)
              /\ \E R \in [Members(f) -> Members(f)] :
                   Rooted(f, R) /\ HeightsFit(f, R)

ASSUME ConstantsAssumption ==
  /\ NoNode \notin Node
  /\ NoElem \notin Elem
  /\ Out \notin Entry \cup Elem
  /\ NoForest \notin Forest \cup [Elem -> Elem \cup {Out}]
  /\ IsFiniteSet(Elem)
  /\ InitialForests \subseteq {f \in Forest : BuiltUp(f)}

VARIABLES mode, base,
          root, child,   \* the classes an edit is about
          newHeight,     \* 1 iff the merge made the tree higher, else 0
          forest,        \* forest[n]: the table, at a BASE
          op, stack, ret,
          cursor,        \* the element find() or find_class() has come to
          out,           \* what find_class() has reported so far
          content

nodeVars == <<mode, base, root, child, newHeight, forest>>
vars == <<mode, base, root, child, newHeight, forest, op, stack, ret, cursor,
          out, content>>

Edits == {"ADD", "REM", "ADDTO", "REMFROM"}

Made(n) == mode[n] # "FREE"

\* The object `new` returns: as in PersistentMap, one choice stands for all.
Fresh(w) == ~Made(w) /\ w = CHOOSE x \in Node : ~Made(x)

\* Node{i}: a class of its own.
Single(i) == [parent |-> i, next |-> i, height |-> 0]

\* Mutation: the two circular lists are not spliced together.
AddEdgeNoSplice(f, from, to, newRoot, change) ==
  [f EXCEPT ![from] = [parent |-> newRoot, next |-> f[to].next,
                       height |-> f[from].height],
            ![to] = [parent |-> f[to].parent, next |-> f[to].next,
                     height |-> (f[to].height + change) % 256]]

\* addEdge(from, to, new_root, change): set from's parent, swap the two next
\* fields, change to's height.  The height is a byte.
AddEdge(f, from, to, newRoot, change) ==
  [f EXCEPT ![from] = [parent |-> newRoot, next |-> f[to].next,
                       height |-> f[from].height],
            ![to] = [parent |-> f[to].parent, next |-> f[from].next,
                     height |-> (f[to].height + change) % 256]]

Calls == [kind : {"find", "find_class", "add"}, self : Node, i : Elem]
           \cup [kind : {"merge"}, self : Node, i : Elem, j : Elem]

Idle == [kind |-> "idle"]

\* What a client must know of the version it calls on: find() and add() state
\* it as assume()s, and merge() is "given by their roots" (its callers look
\* the roots up and return early when they are equal).
Permitted(c) ==
  LET f == content[c.self] IN
    /\ c.kind = "find" => f[c.i] # Out
    /\ c.kind = "add" => f[c.i] = Out
    /\ c.kind = "merge" => c.i # c.j /\ IsRoot(f, c.i) /\ IsRoot(f, c.j)

-----------------------------------------------------------------------------
\* One version, of some forest.  (The versions it was built from are garbage.)
Init == /\ \E n \in Node, f \in InitialForests :
               /\ n = CHOOSE x \in Node : TRUE
               /\ mode = [x \in Node |-> IF x = n THEN "BASE" ELSE "FREE"]
               /\ forest = [x \in Node |-> IF x = n THEN f ELSE NoForest]
               /\ content = [x \in Node |-> IF x = n THEN f ELSE NoForest]
        /\ base = [n \in Node |-> NoNode]
        /\ root = [n \in Node |-> NoElem]
        /\ child = [n \in Node |-> NoElem]
        /\ newHeight = [n \in Node |-> 0]
        /\ op = Idle
        /\ stack = << >>
        /\ ret = Out
        /\ cursor = NoElem
        /\ out = {}

\* Bound: an update is called only while Node has an object left to allocate.
Call(c) == /\ op = Idle
           /\ Made(c.self)
           /\ Permitted(c)
           /\ c.kind \in {"add", "merge"} => \E w \in Node : ~Made(w)
           /\ op' = c
           /\ stack' = << c.self >>
           /\ cursor' = c.i
           /\ UNCHANGED <<nodeVars, ret, out, content>>

-----------------------------------------------------------------------------
(* reroot()                                                                *)

Descend == /\ stack # << >>
           /\ LET n == Head(stack) IN
                /\ mode[n] \in Edits
                /\ mode[base[n]] \in Edits
                /\ stack' = << base[n] >> \o stack
           /\ UNCHANGED <<nodeVars, op, ret, cursor, out, content>>

\* Mutation: undoing a removal is removing again.
RemovalUndoneByRemoval(n) == CASE mode[n] = "ADD" -> "REM"
                               [] mode[n] = "REM" -> "REM"
                               [] mode[n] = "ADDTO" -> "REMFROM"
                               [] mode[n] = "REMFROM" -> "ADDTO"

InverseMode(n) == CASE mode[n] = "ADD" -> "REM"
                    [] mode[n] = "REM" -> "ADD"
                    [] mode[n] = "ADDTO" -> "REMFROM"
                    [] mode[n] = "REMFROM" -> "ADDTO"

\* Mutation: undoing a merge leaves the height it gave the root.
HeightNotRestored(n, f) ==
  CASE mode[n] = "ADD" -> [f EXCEPT ![root[n]] = Single(root[n])]
    [] mode[n] = "REM" -> [f EXCEPT ![root[n]] = Out]
    [] mode[n] = "ADDTO" ->
         AddEdge(f, child[n], root[n], root[n], newHeight[n])
    [] mode[n] = "REMFROM" -> AddEdge(f, child[n], root[n], child[n], 0)

\* Mutation: undoing a merge leaves the child under the root.
ParentNotRestored(n, f) ==
  CASE mode[n] = "ADD" -> [f EXCEPT ![root[n]] = Single(root[n])]
    [] mode[n] = "REM" -> [f EXCEPT ![root[n]] = Out]
    [] mode[n] = "ADDTO" ->
         AddEdge(f, child[n], root[n], root[n], newHeight[n])
    [] mode[n] = "REMFROM" ->
         AddEdge(f, child[n], root[n], root[n], -newHeight[n])

\* n's edit applied to the forest f of its base.
Applied(n, f) ==
  CASE mode[n] = "ADD" -> [f EXCEPT ![root[n]] = Single(root[n])]
    [] mode[n] = "REM" -> [f EXCEPT ![root[n]] = Out]
    [] mode[n] = "ADDTO" ->
         AddEdge(f, child[n], root[n], root[n], newHeight[n])
    [] mode[n] = "REMFROM" ->
         AddEdge(f, child[n], root[n], child[n], -newHeight[n])

Rotate == /\ stack # << >>
          /\ LET n == Head(stack)
                 b == base[n]
             IN /\ mode[n] \in Edits
                /\ mode[b] = "BASE"
                /\ mode' = [mode EXCEPT ![n] = "BASE", ![b] = InverseMode(n)]
                /\ base' = [base EXCEPT ![n] = NoNode, ![b] = n]
                /\ root' = [root EXCEPT ![n] = NoElem, ![b] = root[n]]
                /\ child' = [child EXCEPT ![n] = NoElem, ![b] = child[n]]
                /\ newHeight' = [newHeight EXCEPT ![n] = 0,
                                                  ![b] = newHeight[n]]
                /\ forest' = [forest EXCEPT ![n] = Applied(n, forest[b]),
                                            ![b] = NoForest]
          /\ UNCHANGED <<op, stack, ret, cursor, out, content>>

Return == /\ stack # << >>
          /\ mode[Head(stack)] = "BASE"
          /\ stack' = Tail(stack)
          /\ UNCHANGED <<nodeVars, op, ret, cursor, out, content>>

-----------------------------------------------------------------------------
(* The operations, once the version they were called on is the BASE.       *)

Rerooted(kind) == op.kind = kind /\ stack = << >>

\* The call answers r and is over.
Answer(r) == /\ ret' = r
             /\ op' = Idle
             /\ cursor' = NoElem
             /\ out' = {}

\* find(), find_or_default(): climb from parent to parent up to a root.
FindClimb == /\ Rerooted("find")
             /\ LET f == forest[op.self] IN
                  /\ f[cursor].parent # cursor
                  /\ cursor' = f[cursor].parent
             /\ UNCHANGED <<nodeVars, op, stack, ret, out, content>>

FindRoot == /\ Rerooted("find")
            /\ forest[op.self][cursor].parent = cursor
            /\ Answer(cursor)
            /\ UNCHANGED <<nodeVars, stack, content>>

\* find_class() of an element that is not there reports nothing.
FindNoClass == /\ Rerooted("find_class")
               /\ forest[op.self][op.i] = Out
               /\ Answer({})
               /\ UNCHANGED <<nodeVars, stack, content>>

\* find_class(): report the element, go to the next, stop back at the start.
FindClassStep ==
  /\ Rerooted("find_class")
  /\ LET f == forest[op.self]
         next == f[cursor].next
         reported == out \cup {cursor}
     IN /\ f[op.i] # Out
        /\ IF next = op.i
             THEN Answer(reported)
             ELSE /\ cursor' = next
                  /\ out' = reported
                  /\ UNCHANGED <<op, ret>>
  /\ UNCHANGED <<nodeVars, stack, content>>

\* Node w takes the forest, changed to f; n becomes the edit that undoes it.
HandOver(n, w, f, m, r, c, h) ==
  /\ mode' = [mode EXCEPT ![w] = "BASE", ![n] = m]
  /\ base' = [base EXCEPT ![n] = w]
  /\ root' = [root EXCEPT ![n] = r]
  /\ child' = [child EXCEPT ![n] = c]
  /\ newHeight' = [newHeight EXCEPT ![n] = h]
  /\ forest' = [forest EXCEPT ![w] = f, ![n] = NoForest]
  /\ content' = [content EXCEPT ![w] = f]

\* add(): a new version with the class {i}; self becomes REM.
Add == /\ Rerooted("add")
       /\ LET n == op.self
              i == op.i
          IN \E w \in Node :
               /\ Fresh(w)
               /\ HandOver(n, w, [forest[n] EXCEPT ![i] = Single(i)],
                           "REM", i, NoElem, 0)
               /\ Answer(w)
       /\ UNCHANGED stack

\* Mutation: the higher tree goes under the lower one.
LowerWins(f, i, j) == IF f[i].height > f[j].height THEN j ELSE i

\* The lower tree goes under the higher one; i wins a tie, and grows.
Winner(f, i, j) == IF f[i].height < f[j].height THEN j ELSE i

Growth(f, i, j) == IF f[i].height = f[j].height THEN 1 ELSE 0

\* merge(): a new version with the classes of roots i and j united; self
\* becomes REMFROM.
Merge == /\ Rerooted("merge")
         /\ LET n == op.self
                f == forest[n]
                r == Winner(f, op.i, op.j)
                c == IF r = op.i THEN op.j ELSE op.i
                h == Growth(f, op.i, op.j)
            IN \E w \in Node :
                 /\ Fresh(w)
                 /\ HandOver(n, w, AddEdge(f, c, r, r, h), "REMFROM", r, c, h)
                 /\ Answer(w)
         /\ UNCHANGED stack

Next == \/ \E c \in Calls : Call(c)
        \/ Descend \/ Rotate \/ Return
        \/ FindClimb \/ FindRoot
        \/ FindNoClass \/ FindClassStep
        \/ Add \/ Merge

Spec == Init /\ [][Next]_vars

\* A call, once made, runs to its end: nothing preempts a single thread.
FairSpec ==
  Spec /\ WF_vars(\/ Descend \/ Rotate \/ Return \/ FindClimb \/ FindRoot
                  \/ FindNoClass \/ FindClassStep \/ Add \/ Merge)

-----------------------------------------------------------------------------
(* Properties                                                              *)

TypeOK ==
  /\ mode \in [Node -> {"FREE", "BASE"} \cup Edits]
  /\ base \in [Node -> Node \cup {NoNode}]
  /\ root \in [Node -> Elem \cup {NoElem}]
  /\ child \in [Node -> Elem \cup {NoElem}]
  /\ newHeight \in [Node -> {0, 1}]
  /\ forest \in [Node -> Forest \cup {NoForest}]
  /\ op \in Calls \cup {Idle}
  /\ stack \in Seq(Node)
  /\ ret \in Node \cup Elem \cup {Out} \cup SUBSET Elem
  /\ cursor \in Elem \cup {NoElem}
  /\ out \subseteq Elem
  /\ content \in [Node -> Forest \cup {NoForest}]

ForestIsContent(n) == mode[n] = "BASE" => forest[n] = content[n]

\* g is f with the class {r} added.
AddedTo(f, g, r) == /\ r \in Elem
                    /\ f[r] = Out
                    /\ g = [f EXCEPT ![r] = Single(r)]

\* g is f with the class of root c merged under root r.
MergedIn(f, g, r, c, h) == /\ r \in Elem /\ c \in Elem /\ r # c
                           /\ IsRoot(f, r) /\ IsRoot(f, c)
                           /\ g = AddEdge(f, c, r, r, h)

EditIsContent(n) ==
  LET mine == content[n]
      its == content[base[n]]
  IN /\ mode[n] \in Edits => base[n] \in Node /\ Made(base[n])
     /\ mode[n] = "ADD" => AddedTo(its, mine, root[n])
     /\ mode[n] = "REM" => AddedTo(mine, its, root[n])
     /\ mode[n] = "ADDTO" =>
          MergedIn(its, mine, root[n], child[n], newHeight[n])
     /\ mode[n] = "REMFROM" =>
          MergedIn(mine, its, root[n], child[n], newHeight[n])

\* Every version keeps the very forest it was made with - parents, circular
\* lists and heights - whatever reroot() does for other versions.
VersionsPersist == \A n \in Node : ForestIsContent(n) /\ EditIsContent(n)

\* What the assume()s of reroot(), find(), find_class(), add() and merge()
\* state: whatever is looked up in the table is there, what is added is not.
\* In a release build a false assume() is undefined behaviour.
LookupsSucceed ==
  /\ stack # << >> =>
       LET n == Head(stack) IN
         mode[n] \in {"ADDTO", "REMFROM"} /\ mode[base[n]] = "BASE" =>
           forest[base[n]][root[n]] # Out /\ forest[base[n]][child[n]] # Out
  /\ stack = << >> =>
       LET f == forest[op.self] IN
         /\ op.kind = "find" => f[cursor] # Out
         /\ op.kind = "find_class" => (f[op.i] # Out => f[cursor] # Out)
         /\ op.kind = "add" => f[op.i] = Out
         /\ op.kind = "merge" => f[op.i] # Out /\ f[op.j] # Out

\* Where k steps up the parents, or along the circular list, lead from i.
Climb(f, i) == LET at[k \in Nat] == IF k = 0 THEN i ELSE f[at[k - 1]].parent
               IN at

Along(f, i) == LET at[k \in Nat] == IF k = 0 THEN i ELSE f[at[k - 1]].next
               IN at

\* A forest has no path longer than its number of elements.
RootOf(f, i) == Climb(f, i)[Cardinality(Elem)]

ClassOf(f, i) == {j \in Members(f) : RootOf(f, j) = RootOf(f, i)}

\* Number of parents above i.
Depth(f, i) == CHOOSE d \in 0 .. Cardinality(Elem) :
                 /\ IsRoot(f, Climb(f, i)[d])
                 /\ \A e \in 0 .. d - 1 : ~IsRoot(f, Climb(f, i)[e])

\* In every version the circular list through an element is its class: what
\* find_class() reports is exactly what find() maps to the same root.
ClassListIsClass ==
  \A n \in Node : Made(n) =>
    LET f == content[n] IN
      \A i \in Members(f) :
        /\ IsRoot(f, RootOf(f, i))
        /\ {Along(f, i)[k] : k \in 0 .. Cardinality(ClassOf(f, i)) - 1}
             = ClassOf(f, i)
        /\ Along(f, i)[Cardinality(ClassOf(f, i))] = i

\* Union by height works in every version: a root's height is the length of
\* the longest path to it, and a tree of height h holds at least 2^h elements.
\* So find() takes logarithmic time and the byte cannot overflow.
HeightsAreLogarithmic ==
  \A n \in Node : Made(n) =>
    LET f == content[n] IN
      \A r \in Members(f) : IsRoot(f, r) =>
        /\ \A i \in ClassOf(f, r) : Depth(f, i) <= f[r].height
        /\ \E i \in ClassOf(f, r) : Depth(f, i) = f[r].height
        /\ 2 ^ f[r].height <= Cardinality(ClassOf(f, r))

\* Seen from outside, the versions are immutable partitions with one root per
\* class, and find() and find_class() read them.
RootMap(f) == [i \in Elem |-> IF f[i] = Out THEN Out ELSE RootOf(f, i)]

Abstract ==
  INSTANCE VersionedPartition WITH
    Version <- Node,
    NoVersion <- NoForest,
    Initial <- {RootMap(f) : f \in InitialForests},
    content <- [n \in Node |-> IF content[n] = NoForest THEN NoForest
                               ELSE RootMap(content[n])]

ImplementsVersionedPartition == Abstract!Spec

\* Every call returns: reroot() ends, climbing ends at a root and going round a
\* class ends where it began.
CallsReturn == (op # Idle) ~> (op = Idle)
=============================================================================
