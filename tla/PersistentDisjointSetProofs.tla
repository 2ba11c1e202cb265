-------------------- MODULE PersistentDisjointSetProofs ---------------------
(***************************************************************************)
(* Proofs about PersistentDisjointSet for every set of versions and        *)
(* elements: its type invariant; that rerooting, adding and merging keep   *)
(* the exact forest of every version; that the circular list through an    *)
(* element is its class; that a root's height is the length of the longest *)
(* path to it, and a tree of height h has at least 2^h elements; and that  *)
(* the versions implement VersionedPartition.                              *)
(*                                                                         *)
(* As in PersistentMapProofs the invariant relates neighbours only.  What  *)
(* is new is that a merge is undone EXACTLY: swapping the two next fields  *)
(* a second time restores both lists, and the byte height, increased and   *)
(* decreased modulo 256, is what it was (UnmergeMerge).                    *)
(*                                                                         *)
(* Following parents or next fields is a recursive function, of which the  *)
(* invariant says nothing.  It says instead that some function R gives     *)
(* every element its root (Rooted), in terms of the sets that the fields   *)
(* do not lead out of: these are easy to follow through a merge, and decide *)
(* where any number of steps can lead, because the elements are finitely   *)
(* many (Orbit).                                                           *)
(***************************************************************************)
EXTENDS PersistentDisjointSet, DataFacts, SequenceTheorems, TLAPS

ContentOfMade == \A n \in Node : content[n] \in Forest <=> Made(n)

\* Every version's forest is closed under parents and successors.
ForestsClosed == \A n \in Node : Made(n) => Closed(content[n])

\* The call in progress was permitted, and its cursor stays in the forest.
CallInForest ==
  op # Idle =>
    /\ Made(op.self) /\ Permitted(op) /\ cursor \in Elem
    /\ content[op.self][op.i] # Out => content[op.self][cursor] # Out

\* The outermost frame of reroot() is the version the client called on; once
\* every frame has returned that version owns the forest.
FramesServeCall ==
  /\ stack # << >> => op # Idle /\ stack[Len(stack)] = op.self
  /\ stack = << >> /\ op # Idle => mode[op.self] = "BASE"

NodesTyped ==
  /\ mode \in [Node -> {"FREE", "BASE"} \cup Edits]
  /\ base \in [Node -> Node \cup {NoNode}]
  /\ root \in [Node -> Elem \cup {NoElem}]
  /\ child \in [Node -> Elem \cup {NoElem}]
  /\ newHeight \in [Node -> {0, 1}]
  /\ forest \in [Node -> Forest \cup {NoForest}]
  /\ content \in [Node -> Forest \cup {NoForest}]

NodesInv == NodesTyped /\ ContentOfMade /\ VersionsPersist /\ ForestsClosed

\* The variables of the call in progress.
CallTyped ==
  /\ op \in Calls \cup {Idle}
  /\ stack \in Seq(Node)
  /\ ret \in Node \cup Elem \cup {Out} \cup SUBSET Elem
  /\ cursor \in Elem \cup {NoElem}
  /\ out \subseteq Elem

IInv == NodesInv /\ CallTyped /\ CallInForest /\ FramesServeCall

-----------------------------------------------------------------------------
(* Lemmas about the edits of a forest.                                     *)

\* A height, increased by h and then decreased by it, is the same byte.
LEMMA ByteUndone ==
  ASSUME NEW x \in 0 .. 255, NEW h \in {0, 1}
  PROVE  /\ (x + h) % 256 \in 0 .. 255
         /\ (x + (-h)) % 256 \in 0 .. 255
         /\ (((x + h) % 256) + (-h)) % 256 = x
  OBVIOUS

\* Merging two classes gives a forest, and undoing the merge gives back the
\* forest there was: parents, lists and heights.
LEMMA UnmergeMerge ==
  ASSUME NEW f \in Forest, NEW r \in Elem, NEW c \in Elem, NEW h \in {0, 1},
         r # c, IsRoot(f, r), IsRoot(f, c)
  PROVE  /\ AddEdge(f, c, r, r, h) \in Forest
         /\ AddEdge(AddEdge(f, c, r, r, h), c, r, c, -h) = f
<1> DEFINE g == AddEdge(f, c, r, r, h)
           e == AddEdge(g, c, r, c, -h)
<1>1. /\ f[r] \in Entry /\ f[c] \in Entry
      /\ f[c].parent = c /\ f[r].parent = r
  BY DEF IsRoot, Forest
<1>2. /\ f[r].next \in Elem /\ f[c].next \in Elem
      /\ f[r].height \in 0 .. 255 /\ f[c].height \in 0 .. 255
  BY <1>1 DEF Entry
<1>3. /\ g[c] = [parent |-> r, next |-> f[r].next, height |-> f[c].height]
      /\ g[r] = [parent |-> r, next |-> f[c].next,
                 height |-> (f[r].height + h) % 256]
      /\ \A i \in Elem \ {r, c} : g[i] = f[i]
      /\ DOMAIN g = Elem
  BY <1>1 DEF AddEdge, Forest
<1>4. g \in Forest
  <2>1. g[c] \in Entry /\ g[r] \in Entry
    BY <1>2, <1>3, ByteUndone DEF Entry
  <2>2. g = [i \in Elem |-> g[i]]
    BY DEF AddEdge, Forest
  <2>3. \A i \in Elem : g[i] \in Entry \cup {Out}
    BY <2>1, <1>3 DEF Forest
  <2> QED BY <2>2, <2>3 DEF Forest
<1>5. /\ e[c] = [parent |-> c, next |-> g[r].next, height |-> g[c].height]
      /\ e[r] = [parent |-> g[r].parent, next |-> g[c].next,
                 height |-> (g[r].height + (-h)) % 256]
      /\ \A i \in Elem \ {r, c} : e[i] = g[i]
  BY <1>4 DEF AddEdge, Forest
<1>6. e[c] = [parent |-> c, next |-> f[c].next, height |-> f[c].height]
  BY <1>3, <1>5
<1>7. e[r] = [parent |-> r, next |-> f[r].next, height |-> f[r].height]
  <2>1. (g[r].height + (-h)) % 256 = f[r].height
    BY <1>2, <1>3, ByteUndone
  <2> QED BY <1>3, <1>5, <2>1
<1>8. e[c] = f[c] /\ e[r] = f[r]
  BY <1>1, <1>6, <1>7 DEF Entry
<1>9. \A i \in Elem : e[i] = f[i]
  BY <1>3, <1>5, <1>8
<1>10. e = [i \in Elem |-> e[i]] /\ f = [i \in Elem |-> f[i]]
  BY <1>4 DEF AddEdge, Forest
<1> QED BY <1>4, <1>9, <1>10

\* Removing a class that was added gives back the forest there was.
LEMMA UnaddAdd ==
  ASSUME NEW f \in Forest, NEW i \in Elem, f[i] = Out
  PROVE  /\ [f EXCEPT ![i] = Single(i)] \in Forest
         /\ [[f EXCEPT ![i] = Single(i)] EXCEPT ![i] = Out] = f
<1>1. Single(i) \in Entry
  BY DEF Single, Entry
<1> QED BY <1>1 DEF Forest

\* Adding and merging keep a forest closed.
LEMMA AddClosed ==
  ASSUME NEW f \in Forest, Closed(f), NEW i \in Elem
  PROVE  Closed([f EXCEPT ![i] = Single(i)])
<1> DEFINE g == [f EXCEPT ![i] = Single(i)]
<1>1. /\ g[i] = Single(i) /\ Single(i) \in Entry
      /\ \A x \in Elem \ {i} : g[x] = f[x]
  BY DEF Forest, Single, Entry
<1>2. Single(i) # Out /\ Single(i).parent = i /\ Single(i).next = i
  BY <1>1, ConstantsAssumption DEF Single
<1>3. ASSUME NEW x \in Elem, g[x] # Out
      PROVE  g[g[x].parent] # Out /\ g[g[x].next] # Out
  <2>1. CASE x = i
    BY <2>1, <1>1, <1>2
  <2>2. CASE x # i
    <3>1. f[x] # Out /\ f[x] \in Entry /\ g[x] = f[x]
      BY <2>2, <1>1, <1>3 DEF Forest
    <3>2. f[x].parent \in Elem /\ f[x].next \in Elem
      BY <3>1 DEF Entry
    <3>3. f[f[x].parent] # Out /\ f[f[x].next] # Out
      BY <3>1 DEF Closed
    <3> QED BY <3>1, <3>2, <3>3, <1>1, <1>2
  <2> QED BY <2>1, <2>2
<1> QED BY <1>3 DEF Closed

\* The two roots of a merge are still there after it.
LEMMA MergedPresent ==
  ASSUME NEW f \in Forest, NEW g, NEW r \in Elem, NEW c \in Elem,
         NEW h \in {0, 1}, MergedIn(f, g, r, c, h)
  PROVE  g[r] # Out /\ g[c] # Out
<1>1. /\ r # c /\ IsRoot(f, r) /\ IsRoot(f, c)
      /\ g = AddEdge(f, c, r, r, h)
  BY DEF MergedIn
<1>2. f[r] \in Entry /\ f[c] \in Entry /\ f[r].parent = r
  BY <1>1 DEF IsRoot, Forest
<1>3. /\ f[r].next \in Elem /\ f[c].next \in Elem
      /\ f[r].height \in 0 .. 255 /\ f[c].height \in 0 .. 255
  BY <1>2 DEF Entry
<1>4. /\ g[c] = [parent |-> r, next |-> f[r].next, height |-> f[c].height]
      /\ g[r] = [parent |-> r, next |-> f[c].next,
                 height |-> (f[r].height + h) % 256]
  BY <1>1, <1>2 DEF AddEdge, Forest
<1>5. g[c] \in Entry /\ g[r] \in Entry
  BY <1>3, <1>4, ByteUndone DEF Entry
<1> QED BY <1>5, ConstantsAssumption

\* A merge leads out of no forest.
LEMMA MergeClosed ==
  ASSUME NEW f \in Forest, Closed(f),
         NEW r \in Elem, NEW c \in Elem, NEW h \in {0, 1},
         r # c, IsRoot(f, r), IsRoot(f, c)
  PROVE  Closed(AddEdge(f, c, r, r, h))
<1> DEFINE g == AddEdge(f, c, r, r, h)
<1>1. /\ f[r] \in Entry /\ f[c] \in Entry /\ f[r] # Out /\ f[c] # Out
      /\ f[r].parent = r
  BY DEF IsRoot, Forest
<1>2. /\ g[c].parent = r /\ g[c].next = f[r].next
      /\ g[r].parent = r /\ g[r].next = f[c].next
      /\ \A x \in Elem \ {r, c} : g[x] = f[x]
  BY <1>1 DEF AddEdge, Forest
<1>3. \A x \in Elem : g[x] # Out <=> f[x] # Out
  <2>1. MergedIn(f, g, r, c, h)
    BY DEF MergedIn
  <2>2. g[c] # Out /\ g[r] # Out
    BY <2>1, MergedPresent
  <2> QED BY <1>1, <1>2, <2>2
<1> HIDE DEF g
<1>4. ASSUME NEW x \in Elem, g[x] # Out
      PROVE  g[g[x].parent] # Out /\ g[g[x].next] # Out
  <2>1. \A y \in Elem : f[y] # Out =>
          /\ f[y].parent \in Elem /\ f[y].next \in Elem
          /\ f[f[y].parent] # Out /\ f[f[y].next] # Out
    BY DEF Closed, Forest, Entry
  <2>2. CASE x = c
    BY <2>1, <2>2, <1>1, <1>2, <1>3
  <2>3. CASE x = r
    BY <2>1, <2>3, <1>1, <1>2, <1>3
  <2>4. CASE x \notin {r, c}
    BY <2>1, <2>4, <1>2, <1>3, <1>4
  <2> QED BY <2>2, <2>3, <2>4
<1>5. Closed(g)
  BY <1>4 DEF Closed
<1> QED BY <1>5 DEF g

-----------------------------------------------------------------------------
(* What the two kinds of step that rewrite nodes keep.                     *)

\* add() and merge() hand the forest to a fresh node with one edit applied;
\* the edit left behind leads back.
LEMMA HandOverKeeps ==
  ASSUME NodesInv,
         NEW n \in Node, mode[n] = "BASE",
         NEW w \in Node, ~Made(w),
         NEW f \in Forest, Closed(f),
         NEW m \in {"REM", "REMFROM"},
         NEW r \in Elem, NEW c \in Elem \cup {NoElem}, NEW h \in {0, 1},
         m = "REM" => AddedTo(content[n], f, r),
         m = "REMFROM" => MergedIn(content[n], f, r, c, h),
         HandOver(n, w, f, m, r, c, h)
  PROVE  NodesInv' /\ \A y \in Node : Made(y) => Made(y)' /\ content'[y] = content[y]
<1>1. n # w /\ Made(n) /\ content[n] \in Forest
  BY DEF Made, NodesInv, ContentOfMade
<1>2. NodesTyped'
  BY DEF NodesInv, NodesTyped, HandOver, Edits
<1>3. /\ mode'[n] = m /\ mode'[w] = "BASE"
      /\ base'[n] = w /\ root'[n] = r /\ child'[n] = c /\ newHeight'[n] = h
      /\ forest'[w] = f /\ content'[w] = f /\ content'[n] = content[n]
  BY <1>1 DEF NodesInv, NodesTyped, HandOver
<1>4. \A y \in Node \ {n, w} :
        /\ mode'[y] = mode[y] /\ base'[y] = base[y] /\ root'[y] = root[y]
        /\ child'[y] = child[y] /\ newHeight'[y] = newHeight[y]
        /\ forest'[y] = forest[y] /\ content'[y] = content[y]
  BY DEF NodesInv, NodesTyped, HandOver
<1>5. ContentOfMade'
  BY <1>1, <1>3, <1>4 DEF NodesInv, ContentOfMade, Made
<1>6. \A y \in Node : Made(y) => Made(y)' /\ content'[y] = content[y]
  BY <1>1, <1>3, <1>4 DEF Made
<1>7. ForestsClosed'
  BY <1>1, <1>3, <1>4 DEF NodesInv, ForestsClosed, Made
<1>8. VersionsPersist'
  <2> SUFFICES ASSUME NEW y \in Node
               PROVE  ForestIsContent(y)' /\ EditIsContent(y)'
    BY DEF VersionsPersist
  <2>1. CASE y = w
    BY <2>1, <1>3 DEF ForestIsContent, EditIsContent, Edits
  <2>2. CASE y = n
    <3>1. ForestIsContent(n)'
      BY <1>3 DEF ForestIsContent
    <3>2. Made(w)'
      BY <1>3 DEF Made
    <3>3. mode'[n] = "REM" => AddedTo(content'[n], content'[w], r)
      BY <1>3
    <3>4. mode'[n] = "REMFROM" => MergedIn(content'[n], content'[w], r, c, h)
      BY <1>3
    <3>5. EditIsContent(n)'
      BY <1>3, <3>2, <3>3, <3>4 DEF EditIsContent, AddedTo, MergedIn
    <3> QED BY <2>2, <3>1, <3>5
  <2>3. CASE y \notin {n, w}
    <3>1. ForestIsContent(y) /\ EditIsContent(y)
      BY DEF NodesInv, VersionsPersist
    <3>2. ForestIsContent(y)'
      BY <2>3, <3>1, <1>4 DEF ForestIsContent
    <3>3. mode[y] \in Edits =>
            /\ base[y] \in Node /\ mode'[base[y]] # "FREE"
            /\ content'[base[y]] = content[base[y]]
      BY <3>1, <1>6 DEF EditIsContent, Made
    <3>4. /\ mode'[y] = mode[y] /\ base'[y] = base[y] /\ root'[y] = root[y]
          /\ child'[y] = child[y] /\ newHeight'[y] = newHeight[y]
          /\ content'[y] = content[y]
      BY <2>3, <1>4
    <3>5. EditIsContent(y)'
      <4>1. CASE mode[y] \notin Edits
        BY <4>1, <3>4 DEF EditIsContent, Edits
      <4>2. CASE mode[y] \in Edits
        <5>1. mode[y] = "ADD" =>
                AddedTo(content'[base'[y]], content'[y], root'[y])
          BY <4>2, <3>1, <3>3, <3>4 DEF EditIsContent
        <5>2. mode[y] = "REM" =>
                AddedTo(content'[y], content'[base'[y]], root'[y])
          BY <4>2, <3>1, <3>3, <3>4 DEF EditIsContent
        <5>3. mode[y] = "ADDTO" =>
                MergedIn(content'[base'[y]], content'[y], root'[y], child'[y],
                         newHeight'[y])
          BY <4>2, <3>1, <3>3, <3>4 DEF EditIsContent
        <5>4. mode[y] = "REMFROM" =>
                MergedIn(content'[y], content'[base'[y]], root'[y], child'[y],
                         newHeight'[y])
          BY <4>2, <3>1, <3>3, <3>4 DEF EditIsContent
        <5> QED BY <4>2, <5>1, <5>2, <5>3, <5>4, <3>3, <3>4
                DEF EditIsContent, AddedTo, MergedIn, Made
      <4> QED BY <4>1, <4>2
    <3> QED BY <3>2, <3>5
  <2> QED BY <2>1, <2>2, <2>3
<1> QED BY <1>2, <1>5, <1>6, <1>7, <1>8 DEF NodesInv

\* A node's edit, applied to the forest of its base, gives the node's forest.
LEMMA AppliedIsContent ==
  ASSUME NodesInv, NEW n \in Node, mode[n] \in Edits
  PROVE  Applied(n, content[base[n]]) = content[n]
<1> DEFINE its == content[base[n]]
<1>1. /\ EditIsContent(n) /\ base[n] \in Node /\ Made(base[n]) /\ Made(n)
      /\ newHeight[n] \in {0, 1}
  BY DEF NodesInv, NodesTyped, VersionsPersist, EditIsContent, Made, Edits
<1>2. content[n] \in Forest /\ its \in Forest
  BY <1>1 DEF NodesInv, ContentOfMade
<1>3. CASE mode[n] = "ADD"
  BY <1>1, <1>3 DEF EditIsContent, AddedTo, Applied
<1>4. CASE mode[n] = "REM"
  <2>1. AddedTo(content[n], its, root[n])
    BY <1>1, <1>4 DEF EditIsContent
  <2>2. [its EXCEPT ![root[n]] = Out] = content[n]
    BY <1>2, <2>1, UnaddAdd DEF AddedTo
  <2> QED BY <1>4, <2>2 DEF Applied
<1>5. CASE mode[n] = "ADDTO"
  BY <1>1, <1>5 DEF EditIsContent, MergedIn, Applied
<1>6. CASE mode[n] = "REMFROM"
  <2>1. MergedIn(content[n], its, root[n], child[n], newHeight[n])
    BY <1>1, <1>6 DEF EditIsContent
  <2>2. AddEdge(its, child[n], root[n], child[n], -newHeight[n]) = content[n]
    BY <1>1, <1>2, <2>1, UnmergeMerge DEF MergedIn
  <2> QED BY <1>6, <2>2 DEF Applied
<1> QED BY <1>3, <1>4, <1>5, <1>6 DEF Edits

\* A rotation gives node n its forest and leaves the inverse edit at its base.
LEMMA RotateKeeps ==
  ASSUME NodesInv,
         NEW n \in Node, mode[n] \in Edits, mode[base[n]] = "BASE",
         NEW b, b = base[n],
         mode' = [mode EXCEPT ![n] = "BASE", ![b] = InverseMode(n)],
         base' = [base EXCEPT ![n] = NoNode, ![b] = n],
         root' = [root EXCEPT ![n] = NoElem, ![b] = root[n]],
         child' = [child EXCEPT ![n] = NoElem, ![b] = child[n]],
         newHeight' = [newHeight EXCEPT ![n] = 0, ![b] = newHeight[n]],
         forest' = [forest EXCEPT ![n] = Applied(n, forest[b]),
                                  ![b] = NoForest],
         content' = content
  PROVE  NodesInv' /\ \A y \in Node : Made(y) <=> Made(y)'
<1>1. /\ b \in Node /\ n # b /\ Made(n) /\ Made(b)
      /\ EditIsContent(n) /\ ForestIsContent(b)
      /\ root[n] \in Elem \cup {NoElem} /\ child[n] \in Elem \cup {NoElem}
      /\ newHeight[n] \in {0, 1}
  BY DEF NodesInv, NodesTyped, VersionsPersist, EditIsContent, Edits, Made
<1>2. /\ forest[b] = content[b]
      /\ content[n] \in Forest /\ content[b] \in Forest
  BY <1>1 DEF NodesInv, ContentOfMade, ForestIsContent
<1>3. Applied(n, forest[b]) = content[n]
  BY <1>1, <1>2, AppliedIsContent
<1>4. /\ InverseMode(n) \in Edits
      /\ InverseMode(n) = "ADD" <=> mode[n] = "REM"
      /\ InverseMode(n) = "REM" <=> mode[n] = "ADD"
      /\ InverseMode(n) = "ADDTO" <=> mode[n] = "REMFROM"
      /\ InverseMode(n) = "REMFROM" <=> mode[n] = "ADDTO"
  BY DEF InverseMode, Edits
<1>5. NodesTyped'
  BY <1>1, <1>2, <1>3, <1>4 DEF NodesInv, NodesTyped
<1>6. /\ mode'[n] = "BASE" /\ forest'[n] = content[n]
      /\ mode'[b] = InverseMode(n) /\ base'[b] = n /\ root'[b] = root[n]
      /\ child'[b] = child[n] /\ newHeight'[b] = newHeight[n]
  BY <1>1, <1>3 DEF NodesInv, NodesTyped
<1>7. \A y \in Node \ {n, b} :
        /\ mode'[y] = mode[y] /\ base'[y] = base[y] /\ root'[y] = root[y]
        /\ child'[y] = child[y] /\ newHeight'[y] = newHeight[y]
        /\ forest'[y] = forest[y]
  BY <1>1 DEF NodesInv, NodesTyped
<1>8. \A y \in Node : Made(y) <=> Made(y)'
  BY <1>1, <1>4, <1>6, <1>7 DEF Made, Edits
<1>9. ContentOfMade' /\ ForestsClosed'
  BY <1>8 DEF NodesInv, ContentOfMade, ForestsClosed
<1>10. VersionsPersist'
  <2> SUFFICES ASSUME NEW y \in Node
               PROVE  ForestIsContent(y)' /\ EditIsContent(y)'
    BY DEF VersionsPersist
  <2>1. CASE y = n
    BY <2>1, <1>6 DEF ForestIsContent, EditIsContent, Edits
  <2>2. CASE y = b
    <3>1. ForestIsContent(b)'
      BY <1>4, <1>6 DEF ForestIsContent, Edits
    <3>2. /\ mode[n] = "ADD" => AddedTo(content[b], content[n], root[n])
          /\ mode[n] = "REM" => AddedTo(content[n], content[b], root[n])
          /\ mode[n] = "ADDTO" =>
               MergedIn(content[b], content[n], root[n], child[n], newHeight[n])
          /\ mode[n] = "REMFROM" =>
               MergedIn(content[n], content[b], root[n], child[n], newHeight[n])
      BY <1>1 DEF EditIsContent
    <3>3. EditIsContent(b)'
      BY <1>1, <1>4, <1>6, <1>8, <3>2
         DEF EditIsContent, AddedTo, MergedIn, Made
    <3> QED BY <2>2, <3>1, <3>3
  <2>3. CASE y \notin {n, b}
    <3>1. ForestIsContent(y) /\ EditIsContent(y)
      BY DEF NodesInv, VersionsPersist
    <3>2. ForestIsContent(y)'
      BY <2>3, <3>1, <1>7 DEF ForestIsContent
    <3>3. mode[y] \in Edits => base[y] \in Node /\ mode'[base[y]] # "FREE"
      BY <3>1, <1>8 DEF EditIsContent, Made
    <3>4. EditIsContent(y)'
      BY <2>3, <3>1, <3>3, <1>7 DEF EditIsContent, AddedTo, MergedIn, Made
    <3> QED BY <3>2, <3>4
  <2> QED BY <2>1, <2>2, <2>3
<1> QED BY <1>5, <1>8, <1>9, <1>10 DEF NodesInv

-----------------------------------------------------------------------------
(* One lemma per action.                                                   *)

\* The invariant holds at first.
LEMMA InitInv == Init => IInv
<1> SUFFICES ASSUME Init PROVE IInv
  OBVIOUS
<1>1. PICK n \in Node, f \in InitialForests :
        /\ mode = [x \in Node |-> IF x = n THEN "BASE" ELSE "FREE"]
        /\ forest = [x \in Node |-> IF x = n THEN f ELSE NoForest]
        /\ content = [x \in Node |-> IF x = n THEN f ELSE NoForest]
  BY DEF Init
<1>2. f \in Forest /\ Closed(f) /\ NoForest \notin Forest
  BY ConstantsAssumption DEF BuiltUp
<1>3. NodesTyped
  BY <1>1, <1>2 DEF Init, NodesTyped
<1>4. ContentOfMade /\ VersionsPersist /\ ForestsClosed
  BY <1>1, <1>2 DEF ContentOfMade, VersionsPersist, ForestsClosed, Made,
                    ForestIsContent, EditIsContent, Edits
<1>5. CallTyped /\ CallInForest /\ FramesServeCall
  BY DEF Init, CallTyped, CallInForest, FramesServeCall, Idle
<1> QED BY <1>3, <1>4, <1>5 DEF NodesInv, IInv

\* A step that leaves the nodes alone keeps what is said of them.
LEMMA SameNodes ==
  ASSUME NodesInv, UNCHANGED <<nodeVars, content>>
  PROVE  NodesInv'
BY DEF NodesInv, NodesTyped, ContentOfMade, VersionsPersist, ForestsClosed,
       nodeVars, ForestIsContent, EditIsContent, Made

\* Beginning a call keeps it.
LEMMA CallKeeps == ASSUME IInv, NEW c \in Calls, Call(c) PROVE IInv'
<1>1. c.self \in Node /\ c.i \in Elem /\ c # Idle
  BY DEF Calls, Idle
<1>2. NodesInv'
  BY SameNodes DEF Call, IInv
<1>3. CallTyped'
  BY <1>1 DEF IInv, CallTyped, Call
<1>4. CallInForest' /\ FramesServeCall'
  BY <1>1 DEF CallInForest, FramesServeCall, Call, Made, Permitted, nodeVars
<1> QED BY <1>2, <1>3, <1>4 DEF IInv

\* So does reroot()'s way down,
LEMMA DescendKeeps == ASSUME IInv, Descend PROVE IInv'
<1> DEFINE b == base[Head(stack)]
<1>1. /\ stack \in Seq(Node) /\ stack # << >> /\ Head(stack) \in Node
      /\ mode[Head(stack)] \in Edits
  BY HeadTailProperties DEF IInv, CallTyped, Descend
<1>2. b \in Node
  BY <1>1 DEF IInv, NodesInv, VersionsPersist, EditIsContent
<1>3. stack' = << b >> \o stack
  BY DEF Descend
<1> HIDE DEF b
<1>4. /\ stack' \in Seq(Node) /\ Len(stack') = Len(stack) + 1
      /\ \A i \in 1 .. Len(stack) + 1 :
           stack'[i] = IF i = 1 THEN b ELSE stack[i - 1]
  BY <1>1, <1>2, <1>3, ConcatProperties
<1>5. NodesInv'
  BY SameNodes DEF Descend, IInv
<1>6. CallTyped'
  BY <1>4 DEF IInv, CallTyped, Descend
<1>7. CallInForest'
  BY DEF IInv, CallInForest, Descend, nodeVars, Made, Permitted
<1>8. FramesServeCall'
  <2>1. /\ op' = op /\ mode' = mode /\ Len(stack) \in Nat \ {0}
        /\ stack[Len(stack)] = op.self /\ op # Idle
    BY <1>1 DEF IInv, FramesServeCall, Descend, nodeVars
  <2>2. stack' # << >> /\ stack'[Len(stack')] = op.self
    BY <2>1, <1>4
  <2> QED BY <2>1, <2>2 DEF FramesServeCall
<1> QED BY <1>5, <1>6, <1>7, <1>8 DEF IInv

\* turning an edge around,
LEMMA RotateStepKeeps == ASSUME IInv, Rotate PROVE IInv'
<1> DEFINE n == Head(stack)
<1>1. stack \in Seq(Node) /\ stack # << >> /\ n \in Node
  BY HeadTailProperties DEF IInv, CallTyped, Rotate
<1>2. NodesInv' /\ \A y \in Node : Made(y) <=> Made(y)'
  BY <1>1, RotateKeeps DEF Rotate, IInv
<1>3. op' = op /\ stack' = stack /\ op # Idle /\ op \in Calls
  BY <1>1 DEF Rotate, IInv, FramesServeCall, CallTyped
<1>4. op.self \in Node
  BY <1>3 DEF Calls
<1>5. CallTyped'
  BY DEF IInv, CallTyped, Rotate
<1>6. CallInForest'
  BY <1>2, <1>3, <1>4 DEF IInv, CallInForest, Rotate, Permitted
<1>7. FramesServeCall'
  BY <1>1, <1>3 DEF IInv, FramesServeCall
<1> QED BY <1>2, <1>5, <1>6, <1>7 DEF IInv

\* and returning from a frame.
LEMMA ReturnKeeps == ASSUME IInv, Return PROVE IInv'
<1>1. /\ stack \in Seq(Node) /\ stack # << >> /\ Head(stack) = stack[1]
      /\ mode[stack[1]] = "BASE" /\ stack' = Tail(stack)
      /\ op' = op /\ mode' = mode
  BY DEF IInv, CallTyped, Return, nodeVars
<1>2. /\ stack' \in Seq(Node) /\ Len(stack') = Len(stack) - 1
      /\ \A i \in 1 .. Len(stack') : stack'[i] = stack[i + 1]
  BY <1>1, HeadTailProperties
<1>3. NodesInv'
  BY SameNodes DEF Return, IInv
<1>4. CallTyped'
  BY <1>2 DEF IInv, CallTyped, Return
<1>5. CallInForest'
  BY DEF IInv, CallInForest, Return, nodeVars, Made, Permitted
<1>6. FramesServeCall'
  <2>1. /\ Len(stack) \in Nat \ {0} /\ stack[Len(stack)] = op.self
        /\ op # Idle
    BY <1>1 DEF IInv, FramesServeCall
  <2>2. stack' # << >> => stack'[Len(stack')] = op.self
    BY <1>2, <2>1
  <2>3. stack' = << >> => mode[op.self] = "BASE"
    <3>1. stack' = << >> => Len(stack') = 0
      OBVIOUS
    <3> QED BY <3>1, <1>1, <1>2, <2>1
  <2> QED BY <1>1, <2>1, <2>2, <2>3 DEF FramesServeCall
<1> QED BY <1>3, <1>4, <1>5, <1>6 DEF IInv

\* Once reroot() has returned, the version called on owns its forest.
LEMMA ReadsContent ==
  ASSUME IInv, op # Idle, stack = << >>
  PROVE  /\ op \in Calls /\ op.self \in Node /\ op.i \in Elem /\ cursor \in Elem
         /\ mode[op.self] = "BASE"
         /\ forest[op.self] = content[op.self]
         /\ content[op.self] \in Forest /\ Closed(content[op.self])
<1>1. op \in Calls /\ op.self \in Node /\ op.i \in Elem /\ cursor \in Elem
  BY DEF IInv, CallTyped, CallInForest, Calls
<1>2. mode[op.self] = "BASE"
  BY DEF IInv, FramesServeCall
<1>3. Made(op.self)
  BY <1>2 DEF Made
<1> QED BY <1>1, <1>2, <1>3 DEF IInv, NodesInv, VersionsPersist,
           ForestIsContent, ContentOfMade, ForestsClosed

\* A call that only reads moves its cursor inside the forest.
LEMMA CursorMoves ==
  ASSUME NEW f \in Forest, Closed(f), NEW i \in Elem, f[i] # Out
  PROVE  /\ f[i].parent \in Elem /\ f[f[i].parent] # Out
         /\ f[i].next \in Elem /\ f[f[i].next] # Out
BY DEF Forest, Entry, Closed

\* A climbing find keeps it,
LEMMA FindClimbKeeps == ASSUME IInv, FindClimb PROVE IInv'
<1>1. op # Idle /\ op.kind = "find" /\ stack = << >>
  BY DEF FindClimb, Rerooted, Idle
<1>2. content[op.self][op.i] # Out /\ content[op.self][cursor] # Out
  BY <1>1 DEF IInv, CallInForest, Permitted
<1>3. cursor' \in Elem /\ content[op.self][cursor'] # Out
  BY <1>1, <1>2, ReadsContent, CursorMoves DEF FindClimb
<1>4. NodesInv'
  BY SameNodes DEF FindClimb, IInv
<1>5. CallTyped' /\ CallInForest' /\ FramesServeCall'
  BY <1>3 DEF IInv, CallTyped, CallInForest, FramesServeCall, FindClimb,
              nodeVars, Made, Permitted
<1> QED BY <1>4, <1>5 DEF IInv

\* A call that answers and leaves the nodes alone ends in a good state.
LEMMA AnswerKeeps ==
  ASSUME IInv, stack = << >>, NEW r, Answer(r),
         r \in Node \cup Elem \cup {Out} \cup SUBSET Elem,
         UNCHANGED stack, NodesInv'
  PROVE  IInv'
BY DEF IInv, Answer, CallTyped, CallInForest, FramesServeCall

\* one that has reached the root,
LEMMA FindRootKeeps == ASSUME IInv, FindRoot PROVE IInv'
<1>1. op # Idle /\ stack = << >> /\ Answer(cursor) /\ UNCHANGED stack
  BY DEF FindRoot, Rerooted, Idle
<1>2. NodesInv'
  BY SameNodes DEF FindRoot, IInv
<1> QED BY <1>1, <1>2, ReadsContent, AnswerKeeps

\* find_class() of no member,
LEMMA FindNoClassKeeps == ASSUME IInv, FindNoClass PROVE IInv'
<1>1. stack = << >> /\ Answer({}) /\ UNCHANGED stack
  BY DEF FindNoClass, Rerooted
<1>2. NodesInv'
  BY SameNodes DEF FindNoClass, IInv
<1> QED BY <1>1, <1>2, AnswerKeeps

\* and a step along a class.
LEMMA FindClassStepKeeps == ASSUME IInv, FindClassStep PROVE IInv'
<1> DEFINE f == forest[op.self]
           reported == out \cup {cursor}
<1>1. /\ op # Idle /\ op.kind = "find_class" /\ stack = << >>
      /\ UNCHANGED stack /\ f[op.i] # Out
  BY DEF FindClassStep, Rerooted, Idle
<1>2. f = content[op.self] /\ f \in Forest /\ Closed(f) /\ cursor \in Elem
  BY <1>1, ReadsContent
<1>3. f[cursor] # Out
  BY <1>1, <1>2 DEF IInv, CallInForest
<1>4. f[cursor].next \in Elem /\ f[f[cursor].next] # Out
  BY <1>2, <1>3, CursorMoves
<1>5. NodesInv'
  BY SameNodes DEF FindClassStep, IInv
<1>6. reported \in SUBSET Elem
  BY <1>2 DEF IInv, CallTyped
<1>7. CASE Answer(reported)
  BY <1>1, <1>5, <1>6, <1>7, AnswerKeeps
<1>8. CASE cursor' = f[cursor].next /\ out' = reported /\ UNCHANGED <<op, ret>>
  BY <1>1, <1>2, <1>4, <1>5, <1>6, <1>8
     DEF IInv, CallTyped, CallInForest, FramesServeCall, FindClassStep,
         nodeVars, Made, Permitted
<1> QED BY <1>7, <1>8 DEF FindClassStep

\* Adding keeps it.
LEMMA AddKeeps == ASSUME IInv, Add PROVE IInv'
<1> DEFINE n == op.self
           i == op.i
           f == [forest[n] EXCEPT ![i] = Single(i)]
<1>1. op # Idle /\ op.kind = "add" /\ stack = << >> /\ UNCHANGED stack
  BY DEF Add, Rerooted, Idle
<1>2. PICK w \in Node :
        ~Made(w) /\ HandOver(n, w, f, "REM", i, NoElem, 0) /\ Answer(w)
  BY DEF Add, Fresh
<1>3. /\ n \in Node /\ i \in Elem /\ mode[n] = "BASE"
      /\ forest[n] = content[n] /\ content[n] \in Forest /\ Closed(content[n])
      /\ content[n][i] = Out
  BY <1>1, ReadsContent DEF IInv, CallInForest, Permitted
<1>4. f \in Forest /\ Closed(f) /\ AddedTo(content[n], f, i)
  BY <1>3, UnaddAdd, AddClosed DEF AddedTo
<1> HIDE DEF n, i, f
<1>5. NodesInv'
  BY <1>2, <1>3, <1>4, HandOverKeeps DEF IInv
<1> QED BY <1>1, <1>2, <1>5, AnswerKeeps

\* Merging keeps it.
LEMMA MergeKeeps == ASSUME IInv, Merge PROVE IInv'
<1> DEFINE n == op.self
           f == forest[n]
           r == Winner(f, op.i, op.j)
           c == IF r = op.i THEN op.j ELSE op.i
           h == Growth(f, op.i, op.j)
           g == AddEdge(f, c, r, r, h)
<1>1. op # Idle /\ op.kind = "merge" /\ stack = << >> /\ UNCHANGED stack
  BY DEF Merge, Rerooted, Idle
<1>2. PICK w \in Node :
        ~Made(w) /\ HandOver(n, w, g, "REMFROM", r, c, h) /\ Answer(w)
  BY DEF Merge, Fresh
<1>3. /\ n \in Node /\ op.i \in Elem /\ op.j \in Elem /\ mode[n] = "BASE"
      /\ f = content[n] /\ f \in Forest /\ Closed(f)
      /\ op.i # op.j /\ IsRoot(f, op.i) /\ IsRoot(f, op.j)
  BY <1>1, ReadsContent DEF IInv, CallInForest, Permitted, Calls
<1>4. /\ r \in Elem /\ c \in Elem /\ r # c /\ h \in {0, 1}
      /\ IsRoot(f, r) /\ IsRoot(f, c)
  BY <1>3 DEF Winner, Growth
<1> HIDE DEF n, f, r, c, h
<1>5. g \in Forest /\ Closed(g) /\ MergedIn(content[n], g, r, c, h)
  BY <1>3, <1>4, UnmergeMerge, MergeClosed DEF MergedIn
<1> HIDE DEF g
<1>6. NodesInv'
  BY <1>2, <1>3, <1>4, <1>5, HandOverKeeps DEF IInv
<1> QED BY <1>1, <1>2, <1>6, AnswerKeeps

\* Every step keeps it.
LEMMA StepKeeps == IInv /\ [Next]_vars => IInv'
<1> SUFFICES ASSUME IInv, [Next]_vars PROVE IInv'
  OBVIOUS
<1>1. CASE UNCHANGED vars
  <2>1. NodesInv'
    BY <1>1, SameNodes DEF vars, nodeVars, IInv
  <2> QED BY <1>1, <2>1 DEF vars, IInv, CallTyped, CallInForest,
             FramesServeCall, Made, Permitted
<1>2. CASE \E c \in Calls : Call(c)
  BY <1>2, CallKeeps
<1>3. CASE Descend
  BY <1>3, DescendKeeps
<1>4. CASE Rotate
  BY <1>4, RotateStepKeeps
<1>5. CASE Return
  BY <1>5, ReturnKeeps
<1>6. CASE FindClimb
  BY <1>6, FindClimbKeeps
<1>7. CASE FindRoot
  BY <1>7, FindRootKeeps
<1>8. CASE FindNoClass
  BY <1>8, FindNoClassKeeps
<1>9. CASE FindClassStep
  BY <1>9, FindClassStepKeeps
<1>10. CASE Add
  BY <1>10, AddKeeps
<1>11. CASE Merge
  BY <1>11, MergeKeeps
<1> QED BY <1>1, <1>2, <1>3, <1>4, <1>5, <1>6, <1>7, <1>8, <1>9, <1>10, <1>11
        DEF Next

\* The invariant holds always.
THEOREM Invariance == Spec => []IInv
  BY InitInv, StepKeeps, PTL DEF Spec

-----------------------------------------------------------------------------
(* The properties.                                                         *)

\* Every variable keeps its type; in particular a height stays a byte.
THEOREM TypeCorrect == Spec => []TypeOK
<1>1. IInv => TypeOK
  BY DEF IInv, NodesInv, NodesTyped, CallTyped, TypeOK
<1> QED BY <1>1, Invariance, PTL

\* persistent_disjoint_set keeps the exact forest of every version.
THEOREM VersionsAreImmutable == Spec => []VersionsPersist
<1>1. IInv => VersionsPersist
  BY DEF IInv, NodesInv
<1> QED BY <1>1, Invariance, PTL

\* The assume()s hold: every lookup of reroot(), find(), find_class() and
\* merge() finds its entry, and add() adds an element that is not there.
THEOREM AssumptionsHold == Spec => []LookupsSucceed
<1>1. IInv => LookupsSucceed
  <2> SUFFICES ASSUME IInv PROVE LookupsSucceed
    OBVIOUS
  <2>1. ASSUME stack # << >>, NEW n, n = Head(stack),
               mode[n] \in {"ADDTO", "REMFROM"}, mode[base[n]] = "BASE"
        PROVE  forest[base[n]][root[n]] # Out /\ forest[base[n]][child[n]] # Out
    <3>1. n \in Node
      BY <2>1, HeadTailProperties DEF IInv, CallTyped
    <3>2. /\ EditIsContent(n) /\ base[n] \in Node /\ Made(n)
          /\ newHeight[n] \in {0, 1}
      BY <2>1, <3>1 DEF IInv, NodesInv, NodesTyped, VersionsPersist,
                        EditIsContent, Edits, Made
    <3>3. /\ forest[base[n]] = content[base[n]]
          /\ content[n] \in Forest
      BY <2>1, <3>1, <3>2
         DEF IInv, NodesInv, VersionsPersist, ForestIsContent, ContentOfMade
    <3>4. CASE mode[n] = "ADDTO"
      BY <3>2, <3>3, <3>4 DEF EditIsContent, MergedIn, IsRoot
    <3>5. CASE mode[n] = "REMFROM"
      <4>1. MergedIn(content[n], content[base[n]], root[n], child[n], newHeight[n])
        BY <3>2, <3>5 DEF EditIsContent
      <4>2. root[n] \in Elem /\ child[n] \in Elem
        BY <4>1 DEF MergedIn
      <4> QED BY <3>2, <3>3, <4>1, <4>2, MergedPresent
    <3> QED BY <2>1, <3>4, <3>5
  <2>2. ASSUME stack = << >>, op # Idle
        PROVE  /\ forest[op.self] = content[op.self]
               /\ Permitted(op)
               /\ content[op.self][op.i] # Out => content[op.self][cursor] # Out
    BY <2>2, ReadsContent DEF IInv, CallInForest
  <2>3. op.kind \in {"find", "find_class", "add", "merge"} => op # Idle
    BY DEF Idle
  <2> QED BY <2>1, <2>2, <2>3 DEF LookupsSucceed, Permitted, IsRoot
<1> QED BY <1>1, Invariance, PTL

-----------------------------------------------------------------------------
(* The forests of the versions.                                            *)

\* One step up, and one along the circular list.
Up(f) == [x \in Members(f) |-> f[x].parent]
On(f) == [x \in Members(f) |-> f[x].next]

\* R gives every element of f a root.
Roots(f, R) == R \in [Members(f) -> Members(f)] /\ Rooted(f, R)

\* The elements R gives the root of i.
Same(f, R, i) == {j \in Members(f) : R[j] = R[i]}

-----------------------------------------------------------------------------
(* Where the fields lead.                                                  *)

\* The fields lead from members to members, of which there are finitely many.
LEMMA MembersClosed ==
  ASSUME NEW f \in Forest, Closed(f)
  PROVE  /\ Up(f) \in [Members(f) -> Members(f)]
         /\ On(f) \in [Members(f) -> Members(f)]
         /\ IsFiniteSet(Members(f))
         /\ Cardinality(Members(f)) <= Cardinality(Elem)
         /\ Cardinality(Members(f)) \in Nat
         /\ Cardinality(Elem) \in Nat
<1>1. \A x \in Members(f) : /\ f[x].parent \in Members(f)
                            /\ f[x].next \in Members(f)
  BY CursorMoves DEF Members
<1>2. Members(f) \in SUBSET Elem
  BY DEF Members
<1> QED BY <1>1, <1>2, ConstantsAssumption, FS_Subset, FS_CardinalityType DEF Up, On

\* Climb and Along are the recursive functions they are defined as.
LEMMA ClimbIterates ==
  ASSUME NEW f \in Forest, Closed(f), NEW i \in Members(f)
  PROVE  Climb(f, i) \in [Nat -> Members(f)] /\ Iterates(Climb(f, i), Up(f), i)
<1> DEFINE D == Members(f)
           Def(at) == at = [k \in Nat |-> IF k = 0 THEN i
                                          ELSE f[at[k - 1]].parent]
           c == CHOOSE at : Def(at)
           P == {k \in Nat : c[k] \in D}
<1>1. Up(f) \in [D -> D]
  BY MembersClosed
<1>2. PICK t \in [Nat -> D] : Iterates(t, Up(f), i)
  BY <1>1, IteratesExist
<1>3. Def(t)
  <2>1. \A k \in Nat : t[k] = IF k = 0 THEN i ELSE f[t[k - 1]].parent
    <3> TAKE k \in Nat
    <3>1. CASE k = 0
      BY <3>1, <1>2 DEF Iterates
    <3>2. CASE k # 0
      <4>1. k - 1 \in Nat /\ (k - 1) + 1 = k
        BY <3>2
      <4>2. t[(k - 1) + 1] = Up(f)[t[k - 1]] /\ t[k - 1] \in D
        BY <4>1, <1>2 DEF Iterates
      <4> QED BY <3>2, <4>1, <4>2 DEF Up
    <3> QED BY <3>1, <3>2
  <2> QED BY <2>1
<1>4. Def(c)
  <2> HIDE DEF Def
  <2> QED BY <1>3
<1> HIDE DEF c
<1>5. /\ DOMAIN c = Nat /\ c[0] = i
      /\ \A k \in Nat : c[k] = IF k = 0 THEN i ELSE f[c[k - 1]].parent
  BY <1>4
<1>6. \A k \in Nat : c[k + 1] = f[c[k]].parent
  BY <1>5
<1>7. \A x \in D : f[x].parent \in D
  BY <1>1 DEF Up
<1>8. P = Nat
  <2>1. P \in SUBSET Nat /\ 0 \in P /\ \A k \in P : k + 1 \in P
    BY <1>5, <1>6, <1>7
  <2> HIDE DEF P
  <2> QED BY <2>1, Induction
<1>9. c = [k \in Nat |-> c[k]]
  BY <1>4
<1>10. c \in [Nat -> D] /\ Iterates(c, Up(f), i)
  BY <1>5, <1>6, <1>8, <1>9 DEF Iterates, Up
<1>11. c = Climb(f, i)
  BY DEF Climb, c
<1> QED BY <1>10, <1>11

\* So is Along, with the next fields.
LEMMA AlongIterates ==
  ASSUME NEW f \in Forest, Closed(f), NEW i \in Members(f)
  PROVE  Along(f, i) \in [Nat -> Members(f)] /\ Iterates(Along(f, i), On(f), i)
<1> DEFINE D == Members(f)
           Def(at) == at = [k \in Nat |-> IF k = 0 THEN i
                                          ELSE f[at[k - 1]].next]
           c == CHOOSE at : Def(at)
           P == {k \in Nat : c[k] \in D}
<1>1. On(f) \in [D -> D]
  BY MembersClosed
<1>2. PICK t \in [Nat -> D] : Iterates(t, On(f), i)
  BY <1>1, IteratesExist
<1>3. Def(t)
  <2>1. \A k \in Nat : t[k] = IF k = 0 THEN i ELSE f[t[k - 1]].next
    <3> TAKE k \in Nat
    <3>1. CASE k = 0
      BY <3>1, <1>2 DEF Iterates
    <3>2. CASE k # 0
      <4>1. k - 1 \in Nat /\ (k - 1) + 1 = k
        BY <3>2
      <4>2. t[(k - 1) + 1] = On(f)[t[k - 1]] /\ t[k - 1] \in D
        BY <4>1, <1>2 DEF Iterates
      <4> QED BY <3>2, <4>1, <4>2 DEF On
    <3> QED BY <3>1, <3>2
  <2> QED BY <2>1
<1>4. Def(c)
  <2> HIDE DEF Def
  <2> QED BY <1>3
<1> HIDE DEF c
<1>5. /\ DOMAIN c = Nat /\ c[0] = i
      /\ \A k \in Nat : c[k] = IF k = 0 THEN i ELSE f[c[k - 1]].next
  BY <1>4
<1>6. \A k \in Nat : c[k + 1] = f[c[k]].next
  BY <1>5
<1>7. \A x \in D : f[x].next \in D
  BY <1>1 DEF On
<1>8. P = Nat
  <2>1. P \in SUBSET Nat /\ 0 \in P /\ \A k \in P : k + 1 \in P
    BY <1>5, <1>6, <1>7
  <2> HIDE DEF P
  <2> QED BY <2>1, Induction
<1>9. c = [k \in Nat |-> c[k]]
  BY <1>4
<1>10. c \in [Nat -> D] /\ Iterates(c, On(f), i)
  BY <1>5, <1>6, <1>8, <1>9 DEF Iterates, On
<1>11. c = Along(f, i)
  BY DEF Along, c
<1> QED BY <1>10, <1>11

\* Wherever the fields lead from i is in the class of i.
LEMMA StaysInClass ==
  ASSUME NEW f \in Forest, NEW R, Roots(f, R), NEW i \in Members(f),
         NEW g \in {Up(f), On(f)},
         NEW at \in [Nat -> Members(f)], Iterates(at, g, i)
  PROVE  \A k \in Nat : at[k] \in Same(f, R, i)
<1> DEFINE P == {k \in Nat : R[at[k]] = R[i]}
<1>1. P \in SUBSET Nat /\ 0 \in P
  BY DEF Iterates
<1>2. \A k \in P : k + 1 \in P
  <2> TAKE k \in P
  <2>1. at[k + 1] = g[at[k]] /\ at[k] \in Members(f)
    BY DEF Iterates
  <2>2. R[g[at[k]]] = R[at[k]]
    BY <2>1 DEF Up, On, Roots, Rooted
  <2> QED BY <2>1, <2>2
<1>3. P = Nat
  <2> HIDE DEF P
  <2> QED BY <1>1, <1>2, Induction
<1> QED BY <1>3 DEF Same

\* Climbing reaches the root, in fewer steps than there are elements, and
\* stays there.
LEMMA ClimbEnds ==
  ASSUME NEW f \in Forest, Closed(f), NEW R, Roots(f, R), NEW i \in Members(f)
  PROVE  \E d \in 0 .. Cardinality(Elem) :
           \A k \in Nat : k >= d => Climb(f, i)[k] = R[i]
<1> DEFINE D == Members(f)
           at == Climb(f, i)
<1>1. at \in [Nat -> D] /\ Iterates(at, Up(f), i)
  BY ClimbIterates
<1> HIDE DEF at
<1>2. Up(f) \in [D -> D] /\ IsFiniteSet(D) /\ i \in D
  BY MembersClosed
<1>3. \E m, b \in Nat :
        /\ b < m /\ at[m] = at[b]
        /\ \A x, y \in 0 .. m - 1 : at[x] = at[y] => x = y
        /\ Cardinality(Met(at, 0, m)) = m
        /\ m <= Cardinality(D)
  <2> HIDE DEF D
  <2> QED BY <1>1, <1>2, Orbit
<1>4. PICK m, b \in Nat : b < m /\ at[m] = at[b] /\ m <= Cardinality(D)
  BY <1>3
<1> DEFINE W == Met(at, b, m)
<1>5. b \in Nat /\ m \in Nat /\ b < m
  BY <1>4
<1>6. W \in SUBSET D /\ at[b] \in W
  BY <1>1, <1>5 DEF Met
<1>7. \A x \in W : f[x].parent \in W
  <2> SUFFICES ASSUME NEW j \in b .. m - 1 PROVE f[at[j]].parent \in W
    BY DEF Met
  <2>1. j \in Nat /\ at[j + 1] = f[at[j]].parent
    <3>1. j \in Nat
      BY <1>5
    <3>2. at[j + 1] = Up(f)[at[j]] /\ at[j] \in D
      BY <3>1, <1>1 DEF Iterates
    <3> QED BY <3>1, <3>2 DEF Up
  <2>2. CASE j = m - 1
    BY <2>1, <2>2, <1>4, <1>5, <1>6
  <2>3. CASE j # m - 1
    <3>1. j + 1 \in b .. m - 1
      BY <2>3, <1>5
    <3> QED BY <3>1, <2>1 DEF Met
  <2> QED BY <2>2, <2>3
<1>8. R[at[b]] \in W
  <2> HIDE DEF W
  <2> QED BY <1>6, <1>7 DEF Roots, Rooted
<1>9. R[at[b]] = R[i]
  BY <1>1, <1>5, StaysInClass DEF Same
<1>10. PICK d \in b .. m - 1 : at[d] = R[i]
  BY <1>8, <1>9 DEF Met
<1>11. d \in Nat /\ d \in 0 .. Cardinality(Elem)
  BY <1>4, <1>5, MembersClosed
<1> DEFINE P == {k \in Nat : k >= d => at[k] = R[i]}
<1>12. P = Nat
  <2>1. P \in SUBSET Nat /\ (d = 0 => 0 \in P) /\ (d # 0 => 0 \in P)
    BY <1>10, <1>11
  <2>2. \A k \in P : k + 1 \in P
    <3> TAKE k \in P
    <3>1. at[k + 1] = f[at[k]].parent
      BY <1>1 DEF Iterates, Up
    <3>2. CASE k + 1 = d
      BY <3>2, <1>10
    <3>3. CASE k + 1 > d
      <4>1. at[k] = R[i]
        BY <3>3, <1>11
      <4>2. f[R[i]].parent = R[i]
        BY DEF Roots, Rooted, IsRoot
      <4> QED BY <4>1, <4>2, <3>1
    <3>4. CASE k + 1 < d
      BY <3>4, <1>11
    <3> QED BY <3>2, <3>3, <3>4, <1>11
  <2> HIDE DEF P
  <2> QED BY <2>1, <2>2, Induction
<1>13. \A k \in Nat : k >= d => at[k] = R[i]
  BY <1>12
<1> QED BY <1>11, <1>13 DEF at

\* So RootOf is R.
LEMMA RootOfIsR ==
  ASSUME NEW f \in Forest, Closed(f), NEW R, Roots(f, R)
  PROVE  /\ \A i \in Members(f) : RootOf(f, i) = R[i]
         /\ \A i \in Members(f) : ClassOf(f, i) = Same(f, R, i)
<1>1. \A i \in Members(f) : RootOf(f, i) = R[i]
  <2> TAKE i \in Members(f)
  <2>1. Cardinality(Elem) \in Nat
    BY MembersClosed
  <2> QED BY <2>1, ClimbEnds DEF RootOf
<1> QED BY <1>1 DEF ClassOf, Same

\* Going along the circular list meets the whole class, each element once, and
\* is then back.
LEMMA AlongIsClass ==
  ASSUME NEW f \in Forest, Closed(f), NEW R, Roots(f, R), NEW i \in Members(f)
  PROVE  LET m == Cardinality(Same(f, R, i)) IN
           /\ m \in Nat \ {0}
           /\ {Along(f, i)[k] : k \in 0 .. m - 1} = Same(f, R, i)
           /\ Along(f, i)[m] = i
<1> DEFINE D == Members(f)
           at == Along(f, i)
           C == Same(f, R, i)
<1>1. at \in [Nat -> D] /\ Iterates(at, On(f), i)
  BY AlongIterates
<1> HIDE DEF at
<1>2. On(f) \in [D -> D] /\ IsFiniteSet(D) /\ i \in D
  BY MembersClosed
<1>3. \E m, b \in Nat :
        /\ b < m /\ at[m] = at[b]
        /\ \A x, y \in 0 .. m - 1 : at[x] = at[y] => x = y
        /\ Cardinality(Met(at, 0, m)) = m
        /\ m <= Cardinality(D)
  <2> HIDE DEF D
  <2> QED BY <1>1, <1>2, Orbit
<1>4. PICK m, b \in Nat :
        /\ b < m /\ at[m] = at[b]
        /\ \A x, y \in 0 .. m - 1 : at[x] = at[y] => x = y
        /\ Cardinality(Met(at, 0, m)) = m
  BY <1>3
<1>5. b \in Nat /\ m \in Nat /\ b < m /\ m # 0
  BY <1>4
<1>6. \A k \in Nat : at[k] \in C
  BY <1>1, StaysInClass
\* What is met from the a-th element on holds the class, if a comes before b.
<1>7. ASSUME NEW a \in 0 .. b PROVE C \subseteq Met(at, a, m)
  <2> DEFINE W == Met(at, a, m)
  <2>1. W \in SUBSET D /\ at[a] \in W /\ at[b] \in W /\ R[at[a]] = R[i]
    BY <1>1, <1>5, <1>6 DEF Same, Met
  <2>2. \A x \in W : f[x].next \in W
    <3> SUFFICES ASSUME NEW j \in a .. m - 1 PROVE f[at[j]].next \in W
      BY DEF Met
    <3>1. j \in Nat /\ at[j + 1] = f[at[j]].next
      <4>1. j \in Nat
        BY <1>5
      <4>2. at[j + 1] = On(f)[at[j]] /\ at[j] \in D
        BY <4>1, <1>1 DEF Iterates
      <4> QED BY <4>1, <4>2 DEF On
    <3>2. CASE j = m - 1
      BY <3>1, <3>2, <1>4, <1>5, <2>1
    <3>3. CASE j # m - 1
      <4>1. j + 1 \in a .. m - 1
        BY <3>3, <1>5
      <4> QED BY <4>1, <3>1 DEF Met
    <3> QED BY <3>2, <3>3
  <2> HIDE DEF W
  <2>3. {j \in Members(f) : R[j] = R[at[a]]} \subseteq W
    BY <2>1, <2>2 DEF Roots, Rooted
  <2> QED BY <2>1, <2>3 DEF Same, W
<1>8. C = {at[j] : j \in 0 .. m - 1}
  <2>1. 0 \in 0 .. b
    BY <1>5
  <2>2. C \subseteq Met(at, 0, m)
    BY <2>1, <1>7
  <2> QED BY <2>2, <1>6 DEF Met
<1>9. b = 0
  <2>1. i \in C /\ b \in 0 .. b /\ at[0] = i
    BY <1>1, <1>5 DEF Same, Iterates
  <2>2. PICK j \in b .. m - 1 : at[j] = i
    BY <2>1, <1>7 DEF Met
  <2> QED BY <2>1, <2>2, <1>4, <1>5
<1>10. at[m] = i /\ Cardinality(C) = m /\ m \in Nat \ {0}
  BY <1>1, <1>4, <1>5, <1>8, <1>9 DEF Iterates, Met
<1> QED BY <1>8, <1>10 DEF at

-----------------------------------------------------------------------------
(* What add() and merge() make of R.                                       *)

AddRoot(f, R, i) == [x \in Members(f) \cup {i} |-> IF x = i THEN i ELSE R[x]]

MergeRoots(f, R, c, r) == [x \in Members(f) |-> IF R[x] = c THEN r ELSE R[x]]

\* Where add() and merge() leave a forest as it was.
LEMMA AddEntries ==
  ASSUME NEW f \in Forest, NEW i \in Elem, f[i] = Out,
         NEW g, AddedTo(f, g, i)
  PROVE  /\ Members(g) = Members(f) \cup {i} /\ i \notin Members(f)
         /\ g[i] = Single(i)
         /\ \A x \in Members(f) : g[x] = f[x] /\ x # i
<1>1. Single(i) # Out /\ g = [f EXCEPT ![i] = Single(i)] /\ DOMAIN f = Elem
  BY ConstantsAssumption DEF AddedTo, Single, Entry, Forest
<1>2. g[i] = Single(i) /\ \A x \in Elem : x # i => g[x] = f[x]
  BY <1>1
<1> QED BY <1>1, <1>2 DEF Members

\* What a merge of the classes of r and c leaves in their entries.
LEMMA MergeEntries ==
  ASSUME NEW f \in Forest, Closed(f), NEW r \in Elem, NEW c \in Elem,
         NEW h \in {0, 1}, NEW g, MergedIn(f, g, r, c, h)
  PROVE  /\ Members(g) = Members(f) /\ r \in Members(f) /\ c \in Members(f)
         /\ g[c].parent = r /\ g[c].next = f[r].next
         /\ g[c].height = f[c].height
         /\ g[r].parent = r /\ g[r].next = f[c].next
         /\ g[r].height = (f[r].height + h) % 256
         /\ f[r].parent = r /\ f[c].parent = c
         /\ \A x \in Members(f) : x \notin {r, c} => g[x] = f[x]
<1>1. /\ f[r] \in Entry /\ f[c] \in Entry /\ f[r] # Out /\ f[c] # Out
      /\ f[r].parent = r /\ f[c].parent = c /\ r # c
      /\ g = AddEdge(f, c, r, r, h)
  BY DEF IsRoot, Forest, MergedIn
<1>2. /\ g[c] = [parent |-> r, next |-> f[r].next, height |-> f[c].height]
      /\ g[r] = [parent |-> r, next |-> f[c].next,
                 height |-> (f[r].height + h) % 256]
      /\ \A x \in Elem \ {r, c} : g[x] = f[x]
  BY <1>1 DEF AddEdge, Forest
<1>3. g[r] # Out /\ g[c] # Out
  BY MergedPresent
<1> QED BY <1>1, <1>2, <1>3 DEF Members

\* A member's fields name members.
LEMMA FieldsInside ==
  ASSUME NEW f \in Forest, Closed(f), NEW x \in Members(f)
  PROVE  /\ f[x].parent \in Members(f) /\ f[x].next \in Members(f)
         /\ f[x] \in Entry /\ f[x].height \in 0 .. 255
BY DEF Members, Forest, Entry, Closed

\* An added element is its own root.
LEMMA AddRooted ==
  ASSUME NEW f \in Forest, Closed(f), NEW R, Roots(f, R),
         NEW i \in Elem, f[i] = Out, NEW g, AddedTo(f, g, i)
  PROVE  Roots(g, AddRoot(f, R, i))
<1> DEFINE D == Members(f)
           Q == AddRoot(f, R, i)
<1>1. /\ Members(g) = D \cup {i} /\ i \notin D
      /\ g[i].parent = i /\ g[i].next = i /\ g[i] # Out
      /\ \A x \in D : g[x] = f[x] /\ x # i
  <2>1. Single(i).parent = i /\ Single(i).next = i
    BY DEF Single
  <2>2. /\ Members(g) = D \cup {i} /\ i \notin D /\ g[i] = Single(i)
        /\ \A x \in D : g[x] = f[x] /\ x # i
    BY AddEntries
  <2> QED BY <2>1, <2>2 DEF Members
<1>2. /\ Q \in [Members(g) -> Members(g)] /\ Q[i] = i
      /\ \A x \in D : Q[x] = R[x] /\ R[x] \in D
  BY <1>1 DEF Roots, AddRoot
<1>3. \A x \in D : f[x].parent \in D /\ f[x].next \in D
  BY FieldsInside
<1> HIDE DEF D, Q
<1>4. ASSUME NEW x \in Members(g)
      PROVE  /\ IsRoot(g, Q[x]) /\ Q[g[x].parent] = Q[x]
             /\ Q[g[x].next] = Q[x]
  <2>1. CASE x = i
    BY <2>1, <1>1, <1>2 DEF IsRoot
  <2>2. CASE x \in D
    <3>1. /\ IsRoot(f, R[x]) /\ R[f[x].parent] = R[x] /\ R[f[x].next] = R[x]
      BY <2>2 DEF Roots, Rooted, D
    <3> QED BY <3>1, <2>2, <1>1, <1>2, <1>3 DEF IsRoot
  <2> QED BY <2>1, <2>2, <1>1
<1>5. ASSUME NEW S \in SUBSET Members(g), NEW x \in S
      PROVE  /\ (\A k \in S : g[k].parent \in S) => Q[x] \in S
             /\ (\A k \in S : g[k].next \in S) =>
                  {y \in Members(g) : Q[y] = Q[x]} \subseteq S
  <2>1. CASE x = i
    BY <2>1, <1>1, <1>2
  <2>2. CASE x \in D
    <3> DEFINE T == S \ {i}
    <3>1. T \in SUBSET D /\ x \in T
      BY <2>2, <1>1
    <3>2. /\ (\A k \in T : f[k].parent \in T) => R[x] \in T
          /\ (\A k \in T : f[k].next \in T) =>
               {y \in D : R[y] = R[x]} \subseteq T
      <4> HIDE DEF T
      <4> QED BY <3>1 DEF Roots, Rooted, D
    <3>3. /\ (\A k \in S : g[k].parent \in S) => \A k \in T : f[k].parent \in T
          /\ (\A k \in S : g[k].next \in S) => \A k \in T : f[k].next \in T
      BY <3>1, <1>1, <1>3
    <3>4. \A y \in Members(g) : Q[y] = Q[x] => y \in D /\ R[y] = R[x]
      BY <2>2, <1>1, <1>2
    <3> QED BY <2>2, <3>2, <3>3, <3>4, <1>2
  <2> QED BY <2>1, <2>2, <1>1
<1> QED BY <1>2, <1>4, <1>5 DEF Roots, Rooted, Q

\* Under a merge the elements of the class of c get the root r.
LEMMA MergeRooted ==
  ASSUME NEW f \in Forest, Closed(f), NEW R, Roots(f, R),
         NEW r \in Elem, NEW c \in Elem, NEW h \in {0, 1},
         NEW g, MergedIn(f, g, r, c, h)
  PROVE  Roots(g, MergeRoots(f, R, c, r))
<1> DEFINE D == Members(f)
           Q == MergeRoots(f, R, c, r)
<1>1. /\ Members(g) = D /\ r \in D /\ c \in D /\ r # c
      /\ g[c].parent = r /\ g[c].next = f[r].next
      /\ g[r].parent = r /\ g[r].next = f[c].next
      /\ f[r].parent = r /\ f[c].parent = c
      /\ \A x \in D : x \notin {r, c} => g[x] = f[x]
      /\ \A x \in D : f[x] # Out /\ g[x] # Out
  BY MergeEntries DEF MergedIn, Members
<1>2. /\ R \in [D -> D]
      /\ \A x \in D : /\ f[R[x]].parent = R[x]
                      /\ R[f[x].parent] = R[x] /\ R[f[x].next] = R[x]
      /\ \A x \in D : f[x].parent \in D /\ f[x].next \in D
  BY FieldsInside DEF Roots, Rooted, IsRoot
<1>3. Q \in [D -> D] /\ \A x \in D : Q[x] = IF R[x] = c THEN r ELSE R[x]
  BY <1>1, <1>2 DEF MergeRoots
<1>4. /\ \A S \in SUBSET D : \A x \in S :
           /\ (\A k \in S : f[k].parent \in S) => R[x] \in S
           /\ (\A k \in S : f[k].next \in S) =>
                {y \in D : R[y] = R[x]} \subseteq S
  BY DEF Roots, Rooted
\* A root is its own root.
<1>5. \A x \in D : f[x].parent = x => R[x] = x
  <2> SUFFICES ASSUME NEW x \in D, f[x].parent = x PROVE R[x] = x
    OBVIOUS
  <2>1. {x} \in SUBSET D /\ x \in {x} /\ \A k \in {x} : f[k].parent \in {x}
    OBVIOUS
  <2> HIDE DEF D
  <2> QED BY <2>1, <1>4
<1> HIDE DEF D, Q
<1>6. ASSUME NEW x \in D
      PROVE  /\ IsRoot(g, Q[x]) /\ Q[g[x].parent] = Q[x]
             /\ Q[g[x].next] = Q[x]
  <2>1. R[r] = r /\ R[c] = c /\ Q[r] = r /\ Q[c] = r
    BY <1>1, <1>3, <1>5
  <2>2. g[Q[x]].parent = Q[x] /\ g[Q[x]] # Out
    <3>1. CASE R[x] = c
      BY <3>1, <1>1, <1>3
    <3>2. CASE R[x] # c
      BY <3>2, <1>1, <1>2, <1>3
    <3> QED BY <3>1, <3>2
  <2>3. CASE x = r
    BY <2>1, <2>2, <2>3, <1>1, <1>2, <1>3 DEF IsRoot
  <2>4. CASE x = c
    BY <2>1, <2>2, <2>4, <1>1, <1>2, <1>3 DEF IsRoot
  <2>5. CASE x \notin {r, c}
    BY <2>2, <2>5, <1>1, <1>2, <1>3 DEF IsRoot
  <2> QED BY <2>3, <2>4, <2>5
\* A set that the new parents do not lead out of has the new root: the old
\* parents lead out of it at most from c.
<1>7. ASSUME NEW S \in SUBSET D, NEW x \in S, \A k \in S : g[k].parent \in S
      PROVE  Q[x] \in S
  <2>1. CASE c \in S
    <3>1. r \in S
      BY <2>1, <1>1, <1>7
    <3>2. \A k \in S : f[k].parent \in S
      BY <2>1, <3>1, <1>1, <1>7
    <3> QED BY <3>1, <3>2, <1>3, <1>4
  <2>2. CASE c \notin S
    <3>1. \A k \in S : f[k].parent \in S
      BY <2>2, <1>1, <1>7
    <3> QED BY <2>2, <3>1, <1>3, <1>4
  <2> QED BY <2>1, <2>2
\* Of the two lists, spliced at c and r, a set that the new list does not lead
\* out of holds both or neither.
<1>8. ASSUME NEW S \in SUBSET D, NEW x \in S, \A k \in S : g[k].next \in S
      PROVE  {y \in D : Q[y] = Q[x]} \subseteq S
  <2> DEFINE Class(z) == {y \in D : R[y] = R[z]}
  <2>1. ASSUME NEW z \in S, c \notin Class(z) \cap S, r \notin Class(z) \cap S
        PROVE  Class(z) \subseteq S
    <3> DEFINE T == Class(z) \cap S
    <3>1. T \in SUBSET D /\ z \in T
      OBVIOUS
    <3>2. \A k \in T : f[k].next \in T
      BY <2>1, <1>1, <1>2, <1>8
    <3> HIDE DEF T
    <3>3. {y \in D : R[y] = R[z]} \subseteq T
      BY <3>1, <3>2, <1>4
    <3> QED BY <3>3 DEF T
  <2>2. /\ c \in Class(c) /\ r \in Class(r) /\ R[r] = r /\ R[c] = c
        /\ f[r].next \in Class(r) /\ f[c].next \in Class(c)
    BY <1>1, <1>2, <1>5
  <2>3. c \in S => r \in S
    <3> SUFFICES ASSUME c \in S, r \notin S PROVE FALSE
      OBVIOUS
    <3>1. f[r].next \in S
      BY <1>1, <1>8
    <3>2. r \in Class(f[r].next) /\ c \notin Class(f[r].next)
      BY <2>2, <1>1
    <3> QED BY <3>1, <3>2, <2>1
  <2>4. r \in S => c \in S
    <3> SUFFICES ASSUME r \in S, c \notin S PROVE FALSE
      OBVIOUS
    <3>1. f[c].next \in S
      BY <1>1, <1>8
    <3>2. c \in Class(f[c].next) /\ r \notin Class(f[c].next)
      BY <2>2, <1>1
    <3> QED BY <3>1, <3>2, <2>1
  <2>5. ASSUME c \in S, r \in S PROVE \A z \in S : Class(z) \subseteq S
    <3>1. \A k \in S : f[k].next \in S
      BY <2>5, <1>1, <1>8
    <3> QED BY <3>1, <1>4
  <2>6. CASE R[x] \notin {c, r}
    <3>1. c \notin Class(x) /\ r \notin Class(x)
      BY <2>2, <2>6
    <3>2. Class(x) \subseteq S
      BY <3>1, <2>1
    <3> QED BY <3>2, <2>6, <1>3
  <2>7. CASE R[x] \in {c, r}
    <3>1. c \in S /\ r \in S
      <4>1. R[x] \in Class(x)
        BY <2>2, <2>7, <1>1
      <4>2. c \in S \/ r \in S
        BY <4>1, <2>1, <2>7
      <4> QED BY <4>2, <2>3, <2>4
    <3>2. Class(c) \cup Class(r) \subseteq S
      BY <3>1, <2>5
    <3>3. Q[x] = r
      BY <2>7, <1>3
    <3>4. \A y \in D : Q[y] = r => y \in Class(c) \cup Class(r)
      BY <2>2, <1>3
    <3> QED BY <3>2, <3>3, <3>4
  <2> QED BY <2>6, <2>7
<1> QED BY <1>1, <1>3, <1>6, <1>7, <1>8 DEF Roots, Rooted, Q

-----------------------------------------------------------------------------
(* Every version has a root for each of its elements.                      *)

\* What a step makes: nothing, or one version out of another.
GrownFrom(f, g) ==
  \/ \E i \in Elem : f[i] = Out /\ AddedTo(f, g, i)
  \/ \E r, c \in Elem : /\ MergedIn(f, g, r, c, Growth(f, r, c))
                        /\ f[c].height <= f[r].height

\* A step leaves a version alone or makes it from another by one edit.
LEMMA StepMakes ==
  ASSUME IInv, [Next]_vars, NEW n \in Node, Made(n)'
  PROVE  \/ Made(n) /\ content'[n] = content[n]
         \/ \E m \in Node : Made(m) /\ GrownFrom(content[m], content'[n])
<1>1. CASE UNCHANGED <<content, Made(n)>>
  BY <1>1
<1>2. CASE UNCHANGED vars \/ (\E c \in Calls : Call(c)) \/ Descend \/ Return
           \/ FindClimb \/ FindRoot \/ FindNoClass \/ FindClassStep
  BY <1>1, <1>2 DEF vars, nodeVars, Made, Call, Descend, Return, FindClimb,
                    FindRoot, FindNoClass, FindClassStep
<1>3. CASE Rotate
  <2>1. Head(stack) \in Node
    BY <1>3, HeadTailProperties DEF IInv, CallTyped, Rotate
  <2>2. \A y \in Node : Made(y) <=> Made(y)'
    BY <1>3, <2>1, RotateKeeps DEF Rotate, IInv
  <2> QED BY <2>2, <1>3 DEF Rotate
<1>4. CASE Add
  <2> DEFINE m == op.self
             g == [content[m] EXCEPT ![op.i] = Single(op.i)]
  <2>1. /\ op # Idle /\ op.kind = "add" /\ stack = << >>
    BY <1>4 DEF Add, Rerooted, Idle
  <2>2. /\ m \in Node /\ op.i \in Elem /\ mode[m] = "BASE"
        /\ forest[m] = content[m] /\ content[m][op.i] = Out
    BY <2>1, ReadsContent DEF IInv, CallInForest, Permitted
  <2>3. PICK w \in Node : ~Made(w) /\ HandOver(m, w, g, "REM", op.i, NoElem, 0)
    BY <1>4, <2>2 DEF Add, Fresh
  <2>4. GrownFrom(content[m], g)
    BY <2>2 DEF GrownFrom, AddedTo
  <2> HIDE DEF m, g
  <2>5. /\ content' = [content EXCEPT ![w] = g]
        /\ mode' = [mode EXCEPT ![w] = "BASE", ![m] = "REM"]
    BY <2>3 DEF HandOver
  <2>6. CASE n = w
    BY <2>2, <2>4, <2>5, <2>6 DEF IInv, NodesInv, NodesTyped, Made
  <2>7. CASE n # w
    BY <2>2, <2>5, <2>7 DEF IInv, NodesInv, NodesTyped, Made
  <2> QED BY <2>6, <2>7
<1>5. CASE Merge
  <2> DEFINE m == op.self
             f == forest[m]
             r == Winner(f, op.i, op.j)
             c == IF r = op.i THEN op.j ELSE op.i
             h == Growth(f, op.i, op.j)
             g == AddEdge(f, c, r, r, h)
  <2>1. op # Idle /\ op.kind = "merge" /\ stack = << >>
    BY <1>5 DEF Merge, Rerooted, Idle
  <2>2. /\ m \in Node /\ op.i \in Elem /\ op.j \in Elem /\ mode[m] = "BASE"
        /\ f = content[m] /\ f \in Forest /\ Closed(f)
        /\ op.i # op.j /\ IsRoot(f, op.i) /\ IsRoot(f, op.j)
    BY <2>1, ReadsContent DEF IInv, CallInForest, Permitted, Calls
  <2>3. f[op.i].height \in Int /\ f[op.j].height \in Int
    <3>1. op.i \in Members(f) /\ op.j \in Members(f)
      BY <2>2 DEF Members, IsRoot
    <3> HIDE DEF f
    <3>2. f[op.i].height \in 0 .. 255 /\ f[op.j].height \in 0 .. 255
      BY <3>1, <2>2, FieldsInside
    <3> QED BY <3>2
  <2>4. /\ r \in Elem /\ c \in Elem /\ r # c
        /\ IsRoot(f, r) /\ IsRoot(f, c)
        /\ f[c].height <= f[r].height /\ h = Growth(f, r, c)
    BY <2>2, <2>3 DEF Winner, Growth
  <2>5. PICK w \in Node : ~Made(w) /\ HandOver(m, w, g, "REMFROM", r, c, h)
    BY <1>5 DEF Merge, Fresh
  <2> HIDE DEF m, f, r, c, h
  <2>6. GrownFrom(f, g)
    BY <2>4 DEF GrownFrom, MergedIn
  <2> HIDE DEF g
  <2>7. /\ content' = [content EXCEPT ![w] = g]
        /\ mode' = [mode EXCEPT ![w] = "BASE", ![m] = "REMFROM"]
    BY <2>5 DEF HandOver
  <2>8. CASE n = w
    BY <2>2, <2>6, <2>7, <2>8 DEF IInv, NodesInv, NodesTyped, Made
  <2>9. CASE n # w
    BY <2>2, <2>7, <2>9 DEF IInv, NodesInv, NodesTyped, Made
  <2> QED BY <2>8, <2>9
<1> QED BY <1>2, <1>3, <1>4, <1>5 DEF Next

\* Every version made has a root for each element.
AllRooted == \A n \in Node : Made(n) => \E R : Roots(content[n], R)

\* At first every version is rooted.
LEMMA InitRooted == Init => AllRooted
<1> SUFFICES ASSUME Init, NEW n \in Node, Made(n)
             PROVE  \E R : Roots(content[n], R)
  BY DEF AllRooted
<1>1. content[n] \in InitialForests
  BY DEF Init, Made
<1> QED BY <1>1, ConstantsAssumption DEF BuiltUp, Roots

\* A step keeps every version rooted.
LEMMA StepRooted == IInv /\ AllRooted /\ [Next]_vars => AllRooted'
<1> SUFFICES ASSUME IInv, AllRooted, [Next]_vars, NEW n \in Node, Made(n)'
             PROVE  \E R : Roots(content'[n], R)
  BY DEF AllRooted
<1>1. CASE Made(n) /\ content'[n] = content[n]
  BY <1>1 DEF AllRooted
<1>2. ASSUME NEW m \in Node, Made(m), GrownFrom(content[m], content'[n])
      PROVE  \E R : Roots(content'[n], R)
  <2> DEFINE f == content[m]
             g == content'[n]
  <2>1. f \in Forest /\ Closed(f)
    BY <1>2 DEF IInv, NodesInv, ContentOfMade, ForestsClosed
  <2>2. PICK R : Roots(f, R)
    BY <1>2 DEF AllRooted
  <2> HIDE DEF f, g
  <2>3. GrownFrom(f, g)
    BY <1>2 DEF f, g
  <2>4. ASSUME NEW i \in Elem, f[i] = Out, AddedTo(f, g, i)
        PROVE  Roots(g, AddRoot(f, R, i))
    BY <2>1, <2>2, <2>4, AddRooted
  <2>5. ASSUME NEW r \in Elem, NEW c \in Elem,
               MergedIn(f, g, r, c, Growth(f, r, c))
        PROVE  Roots(g, MergeRoots(f, R, c, r))
    <3>1. Growth(f, r, c) \in {0, 1}
      BY DEF Growth
    <3> QED BY <2>1, <2>2, <2>5, <3>1, MergeRooted
  <2> QED BY <2>3, <2>4, <2>5 DEF GrownFrom, g
<1> QED BY <1>1, <1>2, StepMakes

\* The parents of every version lead from each element to a root, which is how
\* find() and merge() reach one: no merge makes a cycle.
THEOREM RootsExist == Spec => []AllRooted
  BY InitRooted, StepRooted, Invariance, PTL DEF Spec

\* In every version the circular list through an element is its class, and
\* climbing from any element of the class ends at its one root: find_class()
\* and find() agree after any adds and merges.
THEOREM ClassListsAreClasses == Spec => []ClassListIsClass
<1>1. IInv /\ AllRooted => ClassListIsClass
  <2> SUFFICES ASSUME IInv, AllRooted, NEW n \in Node, Made(n),
                      NEW i \in Members(content[n])
               PROVE  LET f == content[n] IN
                        /\ IsRoot(f, RootOf(f, i))
                        /\ {Along(f, i)[k] :
                              k \in 0 .. Cardinality(ClassOf(f, i)) - 1}
                             = ClassOf(f, i)
                        /\ Along(f, i)[Cardinality(ClassOf(f, i))] = i
    BY DEF ClassListIsClass
  <2> DEFINE f == content[n]
  <2>1. f \in Forest /\ Closed(f)
    BY DEF IInv, NodesInv, ContentOfMade, ForestsClosed
  <2>2. PICK R : Roots(f, R)
    BY DEF AllRooted
  <2> HIDE DEF f
  <2>3. i \in Members(f)
    BY DEF f
  <2>4. RootOf(f, i) = R[i] /\ ClassOf(f, i) = Same(f, R, i)
    BY <2>1, <2>2, <2>3, RootOfIsR
  <2>5. IsRoot(f, R[i])
    BY <2>2, <2>3 DEF Roots, Rooted
  <2>6. LET m == Cardinality(Same(f, R, i)) IN
          /\ {Along(f, i)[k] : k \in 0 .. m - 1} = Same(f, R, i)
          /\ Along(f, i)[m] = i
    BY <2>1, <2>2, <2>3, AlongIsClass
  <2> QED BY <2>4, <2>5, <2>6 DEF f
<1> QED BY <1>1, RootsExist, Invariance, PTL

-----------------------------------------------------------------------------
(* Heights.                                                                *)

\* A root is the root of itself.
LEMMA RootIsOwnRoot ==
  ASSUME NEW f \in Forest, NEW R, Roots(f, R), NEW r \in Members(f)
  PROVE  /\ IsRoot(f, r) => R[r] = r
         /\ f[r] # Out
<1>1. ASSUME IsRoot(f, r) PROVE R[r] = r
  <2>1. {r} \in SUBSET Members(f) /\ \A k \in {r} : f[k].parent \in {r}
    BY <1>1 DEF IsRoot
  <2>2. R[r] \in {r}
    BY <2>1 DEF Roots, Rooted
  <2> QED BY <2>2
<1> QED BY <1>1 DEF Members

\* A class and its size.
LEMMA SameFinite ==
  ASSUME NEW f \in Forest, Closed(f), NEW R, NEW i
  PROVE  /\ IsFiniteSet(Same(f, R, i)) /\ Cardinality(Same(f, R, i)) \in Nat
         /\ Cardinality(Same(f, R, i)) <= Cardinality(Elem)
<1>1. Same(f, R, i) \in SUBSET Elem
  BY DEF Same, Members
<1> QED BY <1>1, ConstantsAssumption, FS_Subset, FS_CardinalityType

\* Two classes are no more than there are elements.
LEMMA TwoClasses ==
  ASSUME NEW f \in Forest, Closed(f), NEW R, NEW r, NEW c, R[r] # R[c]
  PROVE  /\ Cardinality(Same(f, R, r) \cup Same(f, R, c))
              = Cardinality(Same(f, R, r)) + Cardinality(Same(f, R, c))
         /\ Cardinality(Same(f, R, r)) + Cardinality(Same(f, R, c))
              <= Cardinality(Elem)
<1> DEFINE A == Same(f, R, r)
           B == Same(f, R, c)
<1>1. A \cap B = {} /\ A \cup B \in SUBSET Elem
  BY DEF Same, Members
<1>2. IsFiniteSet(A) /\ IsFiniteSet(B)
  BY SameFinite
<1> HIDE DEF A, B
<1>3. Cardinality(A \cup B) = Cardinality(A) + Cardinality(B)
  BY <1>1, <1>2, CardinalityOfDisjoint
<1>4. Cardinality(A \cup B) <= Cardinality(Elem)
  BY <1>1, ConstantsAssumption, FS_Subset
<1> QED BY <1>3, <1>4 DEF A, B

\* A tree of height 0 has one element.
LEMMA PowerOfZero == 2 ^ 0 = 1
<1>1. Cardinality(SUBSET {}) = 2 ^ Cardinality({})
  BY FS_EmptySet, FS_SUBSET
<1>2. Cardinality({}) = 0 /\ SUBSET {} = {{}} /\ Cardinality({{}}) = 1
  BY FS_EmptySet, FS_Singleton
<1> QED BY <1>1, <1>2

\* An added element has height 0.
LEMMA AddHeights ==
  ASSUME NEW f \in Forest, Closed(f), NEW R, Roots(f, R), HeightsFit(f, R),
         NEW i \in Elem, f[i] = Out, NEW g, AddedTo(f, g, i)
  PROVE  HeightsFit(g, AddRoot(f, R, i))
<1> DEFINE D == Members(f)
           Q == AddRoot(f, R, i)
<1>1. /\ Members(g) = D \cup {i} /\ i \notin D /\ g[i] = Single(i)
      /\ \A x \in D : g[x] = f[x] /\ x # i
  BY AddEntries
<1>2. g[i].parent = i /\ g[i].height = 0
  BY <1>1 DEF Single
<1>3. Q[i] = i /\ \A x \in D : Q[x] = R[x] /\ R[x] \in D
  BY <1>1 DEF Roots, AddRoot
<1>4. ASSUME NEW x \in D
      PROVE  /\ ~IsRoot(f, x) => f[x].height < f[f[x].parent].height
             /\ f[x].height > 0 =>
                  \E j \in D \ {x} : /\ f[j].parent = x
                                     /\ f[j].height = f[x].height - 1
             /\ IsRoot(f, x) =>
                  2 ^ f[x].height <= Cardinality({j \in D : R[j] = x})
  BY DEF HeightsFit
<1>5. \A x \in D : f[x].parent \in D
  BY FieldsInside
<1> HIDE DEF D, Q
<1>6. ASSUME NEW x \in Members(g)
      PROVE  /\ ~IsRoot(g, x) => g[x].height < g[g[x].parent].height
             /\ g[x].height > 0 =>
                  \E j \in Members(g) \ {x} :
                     g[j].parent = x /\ g[j].height = g[x].height - 1
             /\ IsRoot(g, x) =>
                  2 ^ g[x].height <= Cardinality({j \in Members(g) : Q[j] = x})
  <2>1. CASE x = i
    <3>1. IsRoot(g, x) /\ {j \in Members(g) : Q[j] = x} = {i}
      BY <2>1, <1>1, <1>2, <1>3 DEF IsRoot, Members
    <3>2. Cardinality({i}) = 1
      BY FS_Singleton
    <3> QED BY <2>1, <3>1, <3>2, <1>2, PowerOfZero
  <2>2. CASE x \in D
    <3>1. g[x] = f[x] /\ x # i /\ g[f[x].parent] = f[f[x].parent]
      BY <2>2, <1>1, <1>5
    <3>2. ~IsRoot(g, x) => g[x].height < g[g[x].parent].height
      BY <2>2, <3>1, <1>4 DEF IsRoot
    <3>3. g[x].height > 0 =>
            \E j \in Members(g) \ {x} :
               g[j].parent = x /\ g[j].height = g[x].height - 1
      BY <2>2, <3>1, <1>1, <1>4
    <3>4. {j \in Members(g) : Q[j] = x} = {j \in D : R[j] = x}
      BY <2>2, <3>1, <1>1, <1>3
    <3> QED BY <2>2, <3>1, <3>2, <3>3, <3>4, <1>4 DEF IsRoot
  <2> QED BY <2>1, <2>2, <1>1
<1> QED BY <1>6 DEF HeightsFit, Q

\* The height of a root grows only when two trees of its height are merged, so
\* never beyond what a byte holds.
LEMMA HeightGrows ==
  ASSUME Cardinality(Elem) < 2 ^ 256,
         NEW f \in Forest, Closed(f), NEW R, Roots(f, R), HeightsFit(f, R),
         NEW r \in Elem, NEW c \in Elem, r # c, IsRoot(f, r), IsRoot(f, c)
  PROVE  /\ Growth(f, r, c) \in {0, 1}
         /\ (f[r].height + Growth(f, r, c)) % 256
              = f[r].height + Growth(f, r, c)
         /\ R[r] = r /\ R[c] = c
         /\ 2 ^ f[r].height <= Cardinality(Same(f, R, r))
         /\ 2 ^ f[c].height <= Cardinality(Same(f, R, c))
<1>1. r \in Members(f) /\ c \in Members(f)
  BY DEF IsRoot, Members
<1>2. R[r] = r /\ R[c] = c
  BY <1>1, RootIsOwnRoot
<1>3. f[r].height \in 0 .. 255 /\ f[c].height \in 0 .. 255
  BY <1>1, FieldsInside
<1>4. /\ 2 ^ f[r].height <= Cardinality(Same(f, R, r))
      /\ 2 ^ f[c].height <= Cardinality(Same(f, R, c))
  BY <1>1, <1>2 DEF HeightsFit, Same
<1>5. f[r].height = 255 /\ f[c].height = 255 => FALSE
  <2> SUFFICES ASSUME f[r].height = 255, f[c].height = 255 PROVE FALSE
    OBVIOUS
  <2> DEFINE n == 255
             half == 2 ^ n
             top == 2 ^ 256
  <2>0. /\ half <= Cardinality(Same(f, R, r)) /\ half <= Cardinality(Same(f, R, c))
        /\ Cardinality(Elem) < top
    BY <1>4
  <2>1. half \in Nat /\ top = 2 * half
    <3>1. n \in Nat /\ n + 1 = 256
      OBVIOUS
    <3> HIDE DEF n
    <3>2. 2 ^ n \in Nat /\ 2 ^ (n + 1) = 2 * 2 ^ n
      BY <3>1, PowerDoubles
    <3> QED BY <3>1, <3>2
  <2> HIDE DEF half, top
  <2>3. Cardinality(Same(f, R, r)) + Cardinality(Same(f, R, c))
          <= Cardinality(Elem)
    BY <1>2, TwoClasses
  <2>4. /\ Cardinality(Same(f, R, r)) \in Nat
        /\ Cardinality(Same(f, R, c)) \in Nat
        /\ Cardinality(Elem) \in Nat
    BY SameFinite, MembersClosed
  <2> QED BY <2>0, <2>1, <2>3, <2>4
<1>6. Growth(f, r, c) \in {0, 1} /\ (Growth(f, r, c) = 1 => f[r].height # 255)
  BY <1>5 DEF Growth
<1>7. (f[r].height + Growth(f, r, c)) % 256 = f[r].height + Growth(f, r, c)
  <2>1. f[r].height + Growth(f, r, c) \in 0 .. 255
    BY <1>3, <1>6
  <2> QED BY <2>1
<1> QED BY <1>2, <1>4, <1>6, <1>7

\* A merge keeps the heights right: the taller root stays one, and grows when
\* the two are equal.
LEMMA MergeHeights ==
  ASSUME Cardinality(Elem) < 2 ^ 256,
         NEW f \in Forest, Closed(f), NEW R, Roots(f, R), HeightsFit(f, R),
         NEW r \in Elem, NEW c \in Elem, f[c].height <= f[r].height,
         NEW g, MergedIn(f, g, r, c, Growth(f, r, c))
  PROVE  HeightsFit(g, MergeRoots(f, R, c, r))
<1> DEFINE D == Members(f)
           Q == MergeRoots(f, R, c, r)
           h == Growth(f, r, c)
<1>1. r # c /\ IsRoot(f, r) /\ IsRoot(f, c)
  BY DEF MergedIn
<1>2. /\ h \in {0, 1} /\ (f[r].height + h) % 256 = f[r].height + h
      /\ R[r] = r /\ R[c] = c
      /\ 2 ^ f[r].height <= Cardinality(Same(f, R, r))
      /\ 2 ^ f[c].height <= Cardinality(Same(f, R, c))
  BY <1>1, HeightGrows
<1>3. /\ Members(g) = D /\ r \in D /\ c \in D
      /\ g[c].parent = r /\ g[c].height = f[c].height
      /\ g[r].parent = r /\ g[r].height = f[r].height + h
      /\ f[r].parent = r /\ f[c].parent = c
      /\ \A x \in D : x \notin {r, c} => g[x] = f[x]
  BY <1>2, MergeEntries
<1>4. \A x \in D : f[x].parent \in D /\ f[x].height \in 0 .. 255
                   /\ f[x] # Out /\ g[x] # Out
  BY <1>3, FieldsInside DEF Members
<1>5. \A x \in D : /\ Q[x] = IF R[x] = c THEN r ELSE R[x]
                   /\ g[x].height = f[x].height + (IF x = r THEN h ELSE 0)
  BY <1>3, <1>4 DEF MergeRoots
<1>6. h = 1 <=> f[r].height = f[c].height
  BY DEF Growth
<1>7. ASSUME NEW x \in D
      PROVE  /\ ~IsRoot(f, x) => f[x].height < f[f[x].parent].height
             /\ f[x].height > 0 =>
                  \E j \in D \ {x} : /\ f[j].parent = x
                                     /\ f[j].height = f[x].height - 1
             /\ IsRoot(f, x) =>
                  2 ^ f[x].height <= Cardinality({j \in D : R[j] = x})
  BY DEF HeightsFit
<1> HIDE DEF D, Q, h
<1>8. ASSUME NEW x \in D
      PROVE  ~IsRoot(g, x) => g[x].height < g[g[x].parent].height
  <2>1. CASE x = r
    BY <2>1, <1>3, <1>4 DEF IsRoot
  <2>2. CASE x = c
    <3>1. f[c].height < f[r].height + h
      BY <1>2, <1>3, <1>4, <1>6
    <3> QED BY <2>2, <3>1, <1>3
  <2>3. CASE x \notin {r, c}
    <3> SUFFICES ASSUME ~IsRoot(g, x) PROVE g[x].height < g[f[x].parent].height
      BY <2>3, <1>3
    <3> DEFINE p == f[x].parent
    <3>1. ~IsRoot(f, x) /\ p \in D /\ g[x].height = f[x].height
      BY <2>3, <1>3, <1>4 DEF IsRoot
    <3>2. f[x].height < f[p].height
      BY <3>1, <1>7
    <3> HIDE DEF p
    <3>3. f[p].height \in Int /\ f[x].height \in Int
      <4>1. f[p].height \in 0 .. 255 /\ f[x].height \in 0 .. 255
        BY <3>1, <1>4
      <4> QED BY <4>1
    <3>4. g[p].height = f[p].height + (IF p = r THEN h ELSE 0)
      BY <3>1, <1>5
    <3>5. g[x].height < g[p].height
      BY <3>1, <3>2, <3>3, <3>4, <1>2
    <3> QED BY <3>5 DEF p
  <2> QED BY <2>1, <2>2, <2>3
<1>9. ASSUME NEW x \in D, g[x].height > 0
      PROVE  \E j \in D \ {x} : /\ g[j].parent = x
                                /\ g[j].height = g[x].height - 1
  <2>1. CASE x = r /\ h = 1
    <3>1. c \in D \ {x} /\ g[c].parent = x /\ g[c].height = g[x].height - 1
      BY <2>1, <1>1, <1>3, <1>4, <1>6
    <3> QED BY <3>1
  <2>2. CASE ~(x = r /\ h = 1)
    <3>1. g[x].height = f[x].height
      BY <2>2, <1>2, <1>4, <1>5
    <3>2. PICK j \in D \ {x} : f[j].parent = x /\ f[j].height = f[x].height - 1
      BY <3>1, <1>7, <1>9
    <3>3. j \notin {r, c}
      BY <3>2, <1>3
    <3>4. g[j] = f[j]
      BY <3>3, <1>3
    <3> QED BY <3>1, <3>2, <3>4
  <2> QED BY <2>1, <2>2
<1>10. ASSUME NEW x \in D, IsRoot(g, x)
       PROVE  2 ^ g[x].height <= Cardinality({j \in D : Q[j] = x})
  <2>1. CASE x = r
    <3> DEFINE A == Same(f, R, r)
               B == Same(f, R, c)
    <3>1. {j \in D : Q[j] = x} = A \cup B
      BY <2>1, <1>2, <1>5 DEF Same, D
    <3>2. /\ Cardinality(A \cup B) = Cardinality(A) + Cardinality(B)
          /\ Cardinality(A) \in Nat /\ Cardinality(B) \in Nat
      BY <1>1, <1>2, TwoClasses, SameFinite
    <3>3. f[r].height \in Nat
      BY <1>3, <1>4
    <3>4. 2 ^ f[r].height \in Nat /\ 2 ^ (f[r].height + 1) = 2 * 2 ^ f[r].height
      BY <3>3, PowerDoubles
    <3>5. 2 ^ (f[r].height + h) <= Cardinality(A) + Cardinality(B)
      <4> HIDE DEF A, B
      <4>1. CASE h = 0
        BY <4>1, <3>2, <3>3, <3>4, <1>2 DEF A, B
      <4>2. CASE h = 1
        <5>1. f[c].height = f[r].height
          BY <4>2, <1>6
        <5>2. 2 ^ f[r].height <= Cardinality(A) /\ 2 ^ f[r].height <= Cardinality(B)
          BY <5>1, <1>2 DEF A, B
        <5> QED BY <4>2, <5>2, <3>2, <3>4
      <4> QED BY <4>1, <4>2, <1>2
    <3> QED BY <2>1, <3>1, <3>2, <3>5, <1>3
  <2>2. CASE x # r
    <3>1. x # c
      BY <1>1, <1>3, <1>10 DEF IsRoot
    <3>2. g[x] = f[x] /\ IsRoot(f, x)
      BY <2>2, <3>1, <1>3, <1>4, <1>10 DEF IsRoot
    <3>3. {j \in D : Q[j] = x} = {j \in D : R[j] = x}
      BY <2>2, <3>1, <1>5
    <3> QED BY <3>2, <3>3, <1>7
  <2> QED BY <2>1, <2>2
<1> QED BY <1>3, <1>8, <1>9, <1>10 DEF HeightsFit, Q

\* Depth counts the parents up to the first root, which climbing reaches.
LEMMA DepthCounts ==
  ASSUME NEW f \in Forest, Closed(f), NEW R, Roots(f, R), NEW i \in Members(f)
  PROVE  /\ Depth(f, i) \in Nat
         /\ Climb(f, i)[Depth(f, i)] = R[i]
         /\ \A e \in 0 .. Depth(f, i) - 1 : ~IsRoot(f, Climb(f, i)[e])
         /\ \A d \in Nat : /\ IsRoot(f, Climb(f, i)[d])
                           /\ \A e \in 0 .. d - 1 : ~IsRoot(f, Climb(f, i)[e])
                           => Depth(f, i) = d
<1> DEFINE at == Climb(f, i)
           T == {d \in Nat : IsRoot(f, at[d])}
           First(d) == /\ IsRoot(f, at[d])
                       /\ \A e \in 0 .. d - 1 : ~IsRoot(f, at[e])
<1>1. at \in [Nat -> Members(f)] /\ Iterates(at, Up(f), i)
  BY ClimbIterates
<1>2. PICK n \in 0 .. Cardinality(Elem) : \A k \in Nat : k >= n => at[k] = R[i]
  BY ClimbEnds
<1>3. Cardinality(Elem) \in Nat /\ n \in Nat /\ at[n] = R[i] /\ IsRoot(f, R[i])
  BY <1>2, MembersClosed DEF Roots, Rooted
<1> HIDE DEF at
<1>4. PICK d \in T : \A y \in T : d <= y
  <2>1. T \in SUBSET Nat /\ T # {}
    BY <1>3
  <2> HIDE DEF T
  <2> QED BY <2>1, LeastNat
<1>5. d \in 0 .. Cardinality(Elem) /\ First(d)
  <2>1. d <= n
    BY <1>3, <1>4
  <2>2. \A e \in 0 .. d - 1 : ~IsRoot(f, at[e])
    BY <1>4
  <2> QED BY <2>1, <2>2, <1>2, <1>3
<1>6. \A a, b \in Nat : First(a) /\ First(b) => a = b
  <2> TAKE a, b \in Nat
  <2>1. a < b => a \in 0 .. b - 1
    OBVIOUS
  <2>2. b < a => b \in 0 .. a - 1
    OBVIOUS
  <2> QED BY <2>1, <2>2
<1>7. Depth(f, i) = CHOOSE e \in 0 .. Cardinality(Elem) : First(e)
  BY DEF Depth, at
<1> HIDE DEF First
<1>8. Depth(f, i) \in Nat /\ First(Depth(f, i))
  BY <1>5, <1>7, <1>3
<1>9. \A e \in Nat : First(e) => Depth(f, i) = e
  BY <1>6, <1>8
<1>10. at[Depth(f, i)] = R[i]
  <2> DEFINE r == at[Depth(f, i)]
  <2>1. r \in Members(f) /\ R[r] = R[i]
    BY <1>1, <1>8, StaysInClass DEF Same
  <2>2. R[r] = r
    BY <2>1, <1>8, RootIsOwnRoot DEF First
  <2> QED BY <2>1, <2>2
<1> QED BY <1>8, <1>9, <1>10 DEF First, at

\* Heights grow on the way up, so no element is deeper than its root is high.
LEMMA DepthIsBounded ==
  ASSUME NEW f \in Forest, Closed(f), NEW R, Roots(f, R), HeightsFit(f, R),
         NEW i \in Members(f)
  PROVE  Depth(f, i) <= f[R[i]].height
<1> DEFINE at == Climb(f, i)
           n == Depth(f, i)
           P == {k \in Nat : k <= n => k <= f[at[k]].height}
<1>1. at \in [Nat -> Members(f)] /\ Iterates(at, Up(f), i)
  BY ClimbIterates
<1>2. /\ n \in Nat /\ at[n] = R[i]
      /\ \A e \in 0 .. n - 1 : ~IsRoot(f, at[e])
  BY DepthCounts
<1> HIDE DEF at, n
<1>3. \A k \in Nat : f[at[k]].height \in 0 .. 255
  BY <1>1, FieldsInside
<1>4. 0 \in P
  <2>1. f[at[0]].height \in 0 .. 255
    BY <1>3
  <2>2. 0 <= f[at[0]].height
    BY <2>1
  <2> QED BY <2>2
<1>5. ASSUME NEW k \in P PROVE k + 1 \in P
  <2> SUFFICES ASSUME k + 1 <= n PROVE k + 1 <= f[at[k + 1]].height
    OBVIOUS
  <2>1. k \in 0 .. n - 1 /\ k <= f[at[k]].height
    BY <1>2
  <2>2. at[k + 1] = f[at[k]].parent /\ at[k] \in Members(f)
    BY <1>1 DEF Iterates, Up
  <2>3. ~IsRoot(f, at[k])
    BY <2>1, <1>2
  <2>4. f[at[k]].height < f[at[k + 1]].height
    BY <2>2, <2>3 DEF HeightsFit
  <2>5. k \in Nat /\ k + 1 \in Nat
    OBVIOUS
  <2>6. f[at[k]].height \in 0 .. 255 /\ f[at[k + 1]].height \in 0 .. 255
    BY <2>5, <1>3
  <2> DEFINE a == f[at[k]].height
             b == f[at[k + 1]].height
  <2>7. a \in Int /\ b \in Int /\ k <= a /\ a < b
    BY <2>1, <2>4, <2>6
  <2> HIDE DEF P, a, b
  <2>8. k + 1 <= b
    BY <2>5, <2>7
  <2> QED BY <2>8 DEF b
<1>6. P = Nat
  <2>1. P \in SUBSET Nat
    OBVIOUS
  <2> HIDE DEF P
  <2> QED BY <2>1, <1>4, <1>5, Induction
<1> QED BY <1>2, <1>6 DEF n

\* Some element of a root's class is as deep as the root is high: go down to a
\* highest child, and on.
LEMMA DepthIsReached ==
  ASSUME NEW f \in Forest, Closed(f), NEW R, Roots(f, R), HeightsFit(f, R),
         NEW r \in Members(f), IsRoot(f, r)
  PROVE  \E i \in Same(f, R, r) : Depth(f, i) = f[r].height
<1> DEFINE D == Members(f)
           Leads(i, n, x) == /\ Climb(f, i)[n] = x
                             /\ \A e \in 0 .. n - 1 : ~IsRoot(f, Climb(f, i)[e])
           P == {n \in Nat : \A x \in D :
                   f[x].height = n => \E i \in D : Leads(i, n, x)}
<1>1. \A i \in D : /\ Climb(f, i) \in [Nat -> D]
                   /\ Iterates(Climb(f, i), Up(f), i)
  BY ClimbIterates
<1>2. 0 \in P
  <2>1. \A x \in D : Leads(x, 0, x)
    BY <1>1 DEF Iterates
  <2> QED BY <2>1
<1>3. ASSUME NEW n \in P PROVE n + 1 \in P
  <2> SUFFICES ASSUME NEW x \in D, f[x].height = n + 1
               PROVE  \E i \in D : Leads(i, n + 1, x)
    OBVIOUS
  <2>1. n \in Nat /\ f[x].height > 0
    OBVIOUS
  <2>2. PICK j \in D \ {x} : f[j].parent = x /\ f[j].height = f[x].height - 1
    BY <2>1 DEF HeightsFit
  <2>3. f[j].height = n
    BY <2>1, <2>2
  <2>4. PICK i \in D : Leads(i, n, j)
    BY <2>2, <2>3
  <2>5. ~IsRoot(f, j)
    BY <2>2 DEF IsRoot
  <2> DEFINE at == Climb(f, i)
  <2>6. at[n + 1] = f[at[n]].parent
    BY <2>1, <1>1 DEF Iterates, Up
  <2>7. at[n + 1] = x
    BY <2>6, <2>4, <2>2
  <2>8. \A e \in 0 .. (n + 1) - 1 : e = n \/ e \in 0 .. n - 1
    BY <2>1
  <2>9. \A e \in 0 .. (n + 1) - 1 : ~IsRoot(f, at[e])
    BY <2>4, <2>5, <2>8
  <2>10. Leads(i, n + 1, x)
    BY <2>7, <2>9
  <2> HIDE DEF Leads
  <2> QED BY <2>10
<1>4. P = Nat
  <2>1. P \in SUBSET Nat
    OBVIOUS
  <2> HIDE DEF P
  <2> QED BY <2>1, <1>2, <1>3, Induction
<1> DEFINE h == f[r].height
<1>5. h \in Nat
  <2>1. h \in 0 .. 255
    BY FieldsInside
  <2> QED BY <2>1
<1>6. PICK i \in D : Leads(i, h, r)
  BY <1>4, <1>5
<1>7. Depth(f, i) = h
  BY <1>5, <1>6, DepthCounts
<1>8. R[r] = R[i]
  <2> DEFINE at == Climb(f, i)
  <2>1. at \in [Nat -> D] /\ Iterates(at, Up(f), i) /\ at[h] = r
    BY <1>1, <1>6
  <2> HIDE DEF at
  <2>2. at[h] \in Same(f, R, i)
    BY <2>1, <1>5, StaysInClass
  <2> QED BY <2>1, <2>2 DEF Same
<1> QED BY <1>7, <1>8 DEF Same

\* The forests are built up, as long as the heights fit their byte.
AllBuiltUp ==
  \A n \in Node : Made(n) =>
    \E R : Roots(content[n], R) /\ HeightsFit(content[n], R)

\* At first the heights are right.
LEMMA InitBuiltUp == Init => AllBuiltUp
<1> SUFFICES ASSUME Init, NEW n \in Node, Made(n)
             PROVE  \E R : Roots(content[n], R) /\ HeightsFit(content[n], R)
  BY DEF AllBuiltUp
<1>1. content[n] \in InitialForests
  BY DEF Init, Made
<1> QED BY <1>1, ConstantsAssumption DEF BuiltUp, Roots

\* A step keeps them right.
LEMMA StepBuiltUp ==
  ASSUME Cardinality(Elem) < 2 ^ 256
  PROVE  IInv /\ AllBuiltUp /\ [Next]_vars => AllBuiltUp'
<1> SUFFICES ASSUME IInv, AllBuiltUp, [Next]_vars, NEW n \in Node, Made(n)'
             PROVE  \E R : Roots(content'[n], R) /\ HeightsFit(content'[n], R)
  BY DEF AllBuiltUp
<1>1. CASE Made(n) /\ content'[n] = content[n]
  BY <1>1 DEF AllBuiltUp
<1>2. ASSUME NEW m \in Node, Made(m), GrownFrom(content[m], content'[n])
      PROVE  \E R : Roots(content'[n], R) /\ HeightsFit(content'[n], R)
  <2> DEFINE f == content[m]
             g == content'[n]
  <2>1. f \in Forest /\ Closed(f)
    BY <1>2 DEF IInv, NodesInv, ContentOfMade, ForestsClosed
  <2>2. PICK R : Roots(f, R) /\ HeightsFit(f, R)
    BY <1>2 DEF AllBuiltUp
  <2> HIDE DEF f, g
  <2>3. GrownFrom(f, g)
    BY <1>2 DEF f, g
  <2>4. ASSUME NEW i \in Elem, f[i] = Out, AddedTo(f, g, i)
        PROVE  Roots(g, AddRoot(f, R, i)) /\ HeightsFit(g, AddRoot(f, R, i))
    BY <2>1, <2>2, <2>4, AddRooted, AddHeights
  <2>5. ASSUME NEW r \in Elem, NEW c \in Elem, f[c].height <= f[r].height,
               MergedIn(f, g, r, c, Growth(f, r, c))
        PROVE  /\ Roots(g, MergeRoots(f, R, c, r))
               /\ HeightsFit(g, MergeRoots(f, R, c, r))
    <3>1. Growth(f, r, c) \in {0, 1}
      BY DEF Growth
    <3>2. Roots(g, MergeRoots(f, R, c, r))
      BY <2>1, <2>2, <2>5, <3>1, MergeRooted
    <3>3. HeightsFit(g, MergeRoots(f, R, c, r))
      BY <2>1, <2>2, <2>5, MergeHeights
    <3> QED BY <3>2, <3>3
  <2> QED BY <2>3, <2>4, <2>5 DEF GrownFrom, g
<1> QED BY <1>1, <1>2, StepMakes

\* Union by height works: a root's height is the length of the longest path to
\* it and a tree of height h has at least 2^h elements, so find() takes a
\* logarithmic number of steps.  The byte of the height is enough for fewer
\* than 2^256 elements.
THEOREM HeightsAreRight ==
  ASSUME Cardinality(Elem) < 2 ^ 256
  PROVE  Spec => []HeightsAreLogarithmic
<1>1. IInv /\ AllBuiltUp => HeightsAreLogarithmic
  <2> SUFFICES ASSUME IInv, AllBuiltUp, NEW n \in Node, Made(n),
                      NEW r \in Members(content[n]), IsRoot(content[n], r)
               PROVE  LET f == content[n] IN
                        /\ \A i \in ClassOf(f, r) : Depth(f, i) <= f[r].height
                        /\ \E i \in ClassOf(f, r) : Depth(f, i) = f[r].height
                        /\ 2 ^ f[r].height <= Cardinality(ClassOf(f, r))
    BY DEF HeightsAreLogarithmic
  <2> DEFINE f == content[n]
  <2>1. f \in Forest /\ Closed(f)
    BY DEF IInv, NodesInv, ContentOfMade, ForestsClosed
  <2>2. PICK R : Roots(f, R) /\ HeightsFit(f, R)
    BY DEF AllBuiltUp
  <2> HIDE DEF f
  <2>3. r \in Members(f) /\ IsRoot(f, r)
    BY DEF f
  <2>4. ClassOf(f, r) = Same(f, R, r) /\ R[r] = r
    BY <2>1, <2>2, <2>3, RootOfIsR, RootIsOwnRoot
  <2>5. \A i \in Same(f, R, r) : Depth(f, i) <= f[r].height
    <3> TAKE i \in Same(f, R, r)
    <3>1. i \in Members(f) /\ R[i] = r
      BY <2>4 DEF Same
    <3> QED BY <3>1, <2>1, <2>2, DepthIsBounded
  <2>6. \E i \in Same(f, R, r) : Depth(f, i) = f[r].height
    BY <2>1, <2>2, <2>3, DepthIsReached
  <2>7. 2 ^ f[r].height <= Cardinality(Same(f, R, r))
    BY <2>2, <2>3, <2>4 DEF HeightsFit, Same
  <2> QED BY <2>4, <2>5, <2>6, <2>7 DEF f
<1>2. Spec => []AllBuiltUp
  BY InitBuiltUp, StepBuiltUp, Invariance, PTL DEF Spec
<1> QED BY <1>1, <1>2, Invariance, PTL

-----------------------------------------------------------------------------
(* Refinement.                                                             *)

\* What find() has climbed past and what find_class() has reported.
CallFits ==
  /\ op = Idle => out = {}
  /\ op # Idle =>
       LET f == content[op.self] IN
         /\ op.kind = "find" => RootOf(f, cursor) = RootOf(f, op.i)
         /\ op.kind = "find_class" /\ op.i \in Members(f) =>
              /\ out \cup {cursor} \subseteq ClassOf(f, op.i)
              /\ op.i \in out \cup {cursor}
              /\ \A x \in out : f[x].next \in out \cup {cursor}

RInv == IInv /\ AllRooted /\ CallFits

\* The forest a call works on, and its root function.
LEMMA CallForest ==
  ASSUME RInv, op # Idle, stack = << >>
  PROVE  /\ op \in Calls /\ op.self \in Node /\ Made(op.self)
         /\ op.i \in Elem /\ cursor \in Elem
         /\ forest[op.self] = content[op.self]
         /\ content[op.self] \in Forest /\ Closed(content[op.self])
         /\ \E R : Roots(content[op.self], R)
         /\ op.i \in Members(content[op.self])
              => cursor \in Members(content[op.self])
<1>1. IInv /\ AllRooted
  BY DEF RInv
<1>2. /\ op \in Calls /\ op.self \in Node
      /\ op.i \in Elem /\ cursor \in Elem /\ mode[op.self] = "BASE"
      /\ forest[op.self] = content[op.self]
      /\ content[op.self] \in Forest /\ Closed(content[op.self])
  BY <1>1, ReadsContent
<1>3. Made(op.self)
  BY <1>2 DEF Made
<1>4. content[op.self][op.i] # Out => content[op.self][cursor] # Out
  BY <1>1 DEF IInv, CallInForest
<1> QED BY <1>1, <1>2, <1>3, <1>4 DEF AllRooted, Members

\* A call in progress goes on fitting its version.
LEMMA CallFitsStep == RInv /\ [Next]_vars => CallFits'
<1> SUFFICES ASSUME RInv, [Next]_vars PROVE CallFits'
  OBVIOUS
<1>1. CASE UNCHANGED <<op, cursor, out, content>>
  BY <1>1 DEF RInv, CallFits
<1>2. CASE op' = Idle /\ out' = {}
  BY <1>2 DEF CallFits
<1>3. ASSUME NEW c \in Calls, Call(c) PROVE CallFits'
  <2>1. /\ op' = c /\ cursor' = c.i /\ out' = {} /\ content' = content
        /\ op' # Idle
    BY <1>3 DEF Call, RInv, CallFits, Calls, Idle
  <2> QED BY <2>1 DEF CallFits, ClassOf
<1>4. CASE FindClimb
  <2> DEFINE f == content[op.self]
  <2>1. op # Idle /\ op.kind = "find" /\ stack = << >>
    BY <1>4 DEF FindClimb, Rerooted, Idle
  <2>2. /\ f \in Forest /\ Closed(f) /\ forest[op.self] = f
        /\ op.i \in Members(f) => cursor \in Members(f)
    BY <2>1, CallForest
  <2>3. op.i \in Members(f)
    BY <2>1, CallForest DEF RInv, IInv, CallInForest, Permitted, Members
  <2>4. PICK R : Roots(f, R)
    BY <2>1, CallForest
  <2>5. cursor' = f[cursor].parent /\ UNCHANGED <<op, out, content>>
    BY <1>4, <2>2 DEF FindClimb
  <2>6. RootOf(f, cursor) = RootOf(f, op.i)
    BY <2>1 DEF RInv, CallFits
  <2> HIDE DEF f
  <2>7. f[cursor].parent \in Members(f) /\ cursor \in Members(f)
    BY <2>2, <2>3, FieldsInside
  <2>8. R[f[cursor].parent] = R[cursor]
    BY <2>4, <2>7 DEF Roots, Rooted
  <2>9. RootOf(f, cursor') = RootOf(f, op.i)
    BY <2>2, <2>4, <2>5, <2>6, <2>7, <2>8, RootOfIsR
  <2> QED BY <2>1, <2>5, <2>9 DEF CallFits, f
<1>5. CASE FindClassStep
  <2> DEFINE f == content[op.self]
  <2>1. op # Idle /\ op.kind = "find_class" /\ stack = << >>
    BY <1>5 DEF FindClassStep, Rerooted, Idle
  <2>2. f \in Forest /\ Closed(f) /\ forest[op.self] = f /\ op.i \in Elem
    BY <2>1, CallForest
  <2>3. op.i \in Members(f) /\ cursor \in Members(f)
    BY <1>5, <2>1, <2>2, CallForest DEF FindClassStep, Members
  <2>4. PICK R : Roots(f, R)
    BY <2>1, CallForest
  <2>5. /\ out \cup {cursor} \subseteq ClassOf(f, op.i)
        /\ op.i \in out \cup {cursor}
        /\ \A x \in out : f[x].next \in out \cup {cursor}
    BY <2>1, <2>3 DEF RInv, CallFits
  <2>6. CASE Answer(out \cup {cursor})
    BY <2>6, <1>2 DEF Answer
  <2>7. CASE /\ cursor' = f[cursor].next /\ out' = out \cup {cursor}
             /\ UNCHANGED <<op, content>>
    <3> HIDE DEF f
    <3>1. f[cursor].next \in Members(f)
      BY <2>2, <2>3, FieldsInside
    <3>2. R[f[cursor].next] = R[cursor]
      BY <2>3, <2>4 DEF Roots, Rooted
    <3>3. RootOf(f, f[cursor].next) = RootOf(f, cursor)
      BY <3>1, <3>2, <2>2, <2>3, <2>4, RootOfIsR
    <3>4. cursor' \in ClassOf(f, op.i)
      BY <3>1, <3>3, <2>5, <2>7 DEF ClassOf
    <3>5. /\ out' \cup {cursor'} \subseteq ClassOf(f, op.i)
          /\ op.i \in out' \cup {cursor'}
          /\ \A x \in out' : f[x].next \in out' \cup {cursor'}
      BY <3>4, <2>5, <2>7
    <3> QED BY <3>5, <2>1, <2>7 DEF CallFits, f
  <2> QED BY <1>5, <2>2, <2>6, <2>7 DEF FindClassStep
<1>6. CASE FindRoot \/ FindNoClass \/ Add \/ Merge
  BY <1>2, <1>6 DEF FindRoot, FindNoClass, Add, Merge, Answer
<1>7. CASE UNCHANGED vars \/ Descend \/ Rotate \/ Return
  BY <1>1, <1>7 DEF vars, Descend, Rotate, Return
<1> QED BY <1>3, <1>4, <1>5, <1>6, <1>7 DEF Next

\* What the refinement needs of a call under way: find() climbs within the class
\* it is asked about; find_class() has collected only members of that class, and
\* all that its cursor has passed.
THEOREM RefinementInvariance == Spec => []RInv
<1>1. Init => RInv
  <2>1. Init => CallFits
    BY DEF Init, CallFits
  <2> QED BY <2>1, InitInv, InitRooted DEF RInv
<1>2. RInv /\ [Next]_vars => RInv'
  BY CallFitsStep, StepKeeps, StepRooted DEF RInv
<1> QED BY <1>1, <1>2, PTL DEF Spec

-----------------------------------------------------------------------------
\* A forest as its clients see it.
LEMMA RootMapIs ==
  ASSUME NEW f \in Forest, Closed(f), NEW R, Roots(f, R)
  PROVE  /\ RootMap(f) = [i \in Elem |-> IF i \in Members(f) THEN R[i] ELSE Out]
         /\ RootMap(f) # NoForest
         /\ \A i \in Elem : RootMap(f)[i] = Out <=> i \notin Members(f)
         /\ \A i \in Members(f) :
              {j \in Elem : RootMap(f)[j] = RootMap(f)[i]} = ClassOf(f, i)
<1>1. \A i \in Elem : i \in Members(f) <=> f[i] # Out
  BY DEF Members
<1>2. \A i \in Members(f) : /\ RootOf(f, i) = R[i] /\ R[i] \in Elem
                            /\ ClassOf(f, i) = Same(f, R, i)
                            /\ i \in Elem
  BY RootOfIsR DEF Roots, Members
<1>3. RootMap(f) = [i \in Elem |-> IF i \in Members(f) THEN R[i] ELSE Out]
  BY <1>1, <1>2 DEF RootMap
<1>4. RootMap(f) \in [Elem -> Elem \cup {Out}]
  BY <1>2, <1>3
<1>5. \A i \in Elem : RootMap(f)[i] = Out <=> i \notin Members(f)
  BY <1>2, <1>3, ConstantsAssumption
<1>6. ASSUME NEW i \in Members(f)
      PROVE  {j \in Elem : RootMap(f)[j] = RootMap(f)[i]} = ClassOf(f, i)
  BY <1>2, <1>3, <1>5 DEF Same, Members
<1> QED BY <1>3, <1>4, <1>5, <1>6, ConstantsAssumption

\* Adding and merging, as clients see them.
LEMMA AddIsSeen ==
  ASSUME NEW f \in Forest, Closed(f), NEW R, Roots(f, R),
         NEW i \in Elem, f[i] = Out, NEW g \in Forest, AddedTo(f, g, i)
  PROVE  RootMap(g) = [RootMap(f) EXCEPT ![i] = i]
<1>1. Closed(g) /\ Roots(g, AddRoot(f, R, i))
  BY AddClosed, AddRooted DEF AddedTo
<1>2. Members(g) = Members(f) \cup {i} /\ i \notin Members(f)
  BY AddEntries
<1>3. RootMap(g) = [x \in Elem |-> IF x \in Members(g) THEN AddRoot(f, R, i)[x]
                                   ELSE Out]
  BY <1>1, RootMapIs
<1>4. RootMap(f) = [x \in Elem |-> IF x \in Members(f) THEN R[x] ELSE Out]
  BY RootMapIs
<1> QED BY <1>2, <1>3, <1>4 DEF AddRoot

\* A merge gives the elements of both classes the root r, and no other.
LEMMA MergeIsSeen ==
  ASSUME NEW f \in Forest, Closed(f), NEW R, Roots(f, R),
         NEW r \in Elem, NEW c \in Elem, NEW h \in {0, 1},
         NEW g \in Forest, MergedIn(f, g, r, c, h)
  PROVE  RootMap(g) = [x \in Elem |-> IF RootMap(f)[x] \in {r, c} THEN r
                                      ELSE RootMap(f)[x]]
<1>1. Closed(g) /\ Roots(g, MergeRoots(f, R, c, r)) /\ Members(g) = Members(f)
  BY MergeClosed, MergeRooted, MergeEntries DEF MergedIn
<1>2. RootMap(g) = [x \in Elem |-> IF x \in Members(f)
                                   THEN MergeRoots(f, R, c, r)[x] ELSE Out]
  BY <1>1, RootMapIs
<1>3. RootMap(f) = [x \in Elem |-> IF x \in Members(f) THEN R[x] ELSE Out]
  BY RootMapIs
<1>4. Out \notin {r, c}
  BY ConstantsAssumption
<1> QED BY <1>2, <1>3, <1>4 DEF MergeRoots

\* A version exists for the clients exactly when it is allocated, and is then
\* the root map of its forest.
LEMMA SeenIsRootMap ==
  ASSUME RInv
  PROVE  LET seen == [n \in Node |-> IF content[n] = NoForest THEN NoForest
                                     ELSE RootMap(content[n])]
         IN \A n \in Node : /\ Made(n) <=> seen[n] # NoForest
                            /\ Made(n) => seen[n] = RootMap(content[n])
<1> SUFFICES ASSUME NEW n \in Node
             PROVE  /\ ~Made(n) => content[n] = NoForest
                    /\ Made(n) => /\ content[n] # NoForest
                                  /\ RootMap(content[n]) # NoForest
  OBVIOUS
<1>1. /\ content[n] \in Forest <=> Made(n)
      /\ content[n] \in Forest \cup {NoForest}
      /\ NoForest \notin Forest
  BY ConstantsAssumption DEF RInv, IInv, NodesInv, NodesTyped, ContentOfMade
<1>2. ASSUME Made(n) PROVE RootMap(content[n]) # NoForest
  <2>1. PICK R : Roots(content[n], R)
    BY <1>2 DEF RInv, AllRooted
  <2>2. content[n] \in Forest /\ Closed(content[n])
    BY <1>1, <1>2 DEF RInv, IInv, NodesInv, ForestsClosed
  <2> QED BY <2>1, <2>2, RootMapIs
<1> QED BY <1>1, <1>2

\* What clients see of the contents.
Seen == [n \in Node |-> IF content[n] = NoForest THEN NoForest
                        ELSE RootMap(content[n])]

\* The initial forests map to initial partitions.
LEMMA InitRefines == Init => Abstract!Init
<1> SUFFICES ASSUME Init PROVE Abstract!Init
  OBVIOUS
<1>1. PICK n \in Node, f \in InitialForests :
        content = [x \in Node |-> IF x = n THEN f ELSE NoForest]
  BY DEF Init
<1>2. f # NoForest
  BY ConstantsAssumption
<1>3. Seen = [x \in Node |-> IF x = n THEN RootMap(f) ELSE NoForest]
  BY <1>1, <1>2 DEF Seen
<1>4. RootMap(f) \in {RootMap(e) : e \in InitialForests}
  OBVIOUS
<1> QED BY <1>3, <1>4 DEF Init, Abstract!Init, Idle, Abstract!Idle, Seen

\* find() answers the root of the version's class.
LEMMA FindRefines == ASSUME RInv, FindRoot PROVE Abstract!Find
<1> DEFINE f == content[op.self]
<1>1. op # Idle /\ op.kind = "find" /\ stack = << >>
  BY DEF FindRoot, Rerooted, Idle
<1>2. /\ f \in Forest /\ Closed(f) /\ forest[op.self] = f /\ op.self \in Node
      /\ op.i \in Members(f) => cursor \in Members(f)
      /\ Made(op.self) /\ op.i \in Elem
  BY <1>1, CallForest
<1>3. op.i \in Members(f)
  BY <1>1, CallForest DEF RInv, IInv, CallInForest, Permitted, Members
<1>4. PICK R : Roots(f, R)
  BY <1>1, CallForest
<1>5. f[cursor].parent = cursor /\ ret' = cursor /\ op' = Idle /\ content' = content
  BY <1>2 DEF FindRoot, Answer
<1>6. RootOf(f, cursor) = RootOf(f, op.i)
  BY <1>1 DEF RInv, CallFits
<1>7. Seen[op.self] = RootMap(f)
  BY <1>2, SeenIsRootMap DEF Seen
<1> HIDE DEF f
<1>8. R[cursor] = cursor
  BY <1>2, <1>3, <1>4, <1>5, RootIsOwnRoot DEF IsRoot, Members
<1>9. RootMap(f)[op.i] = cursor
  BY <1>2, <1>3, <1>4, <1>6, <1>8, RootOfIsR, RootMapIs
<1>10. Seen[op.self][op.i] = cursor
  BY <1>7, <1>9
<1> QED BY <1>1, <1>5, <1>10
        DEF Abstract!Find, Abstract!Answer, Abstract!Root, Idle,
            Abstract!Idle, Seen

\* find_class() answers nothing for an element that is not there,
LEMMA NoClassRefines == ASSUME RInv, FindNoClass PROVE Abstract!FindClass
<1> DEFINE f == content[op.self]
<1>1. op # Idle /\ op.kind = "find_class" /\ stack = << >>
  BY DEF FindNoClass, Rerooted, Idle
<1>2. /\ f \in Forest /\ Closed(f) /\ forest[op.self] = f /\ op.self \in Node
      /\ Made(op.self) /\ op.i \in Elem
  BY <1>1, CallForest
<1>3. PICK R : Roots(f, R)
  BY <1>1, CallForest
<1>4. op.i \notin Members(f) /\ ret' = {} /\ op' = Idle /\ content' = content
  BY <1>2 DEF FindNoClass, Answer, Members
<1>5. Seen[op.self] = RootMap(f)
  BY <1>2, SeenIsRootMap DEF Seen
<1> HIDE DEF f
<1>6. RootMap(f)[op.i] = Out
  BY <1>2, <1>3, <1>4, RootMapIs
<1>7. Seen[op.self][op.i] = Out
  BY <1>5, <1>6
<1> QED BY <1>1, <1>4, <1>7
        DEF Abstract!FindClass, Abstract!Answer, Abstract!Root, Idle,
            Abstract!Idle, Seen

\* and the whole class, and nothing else, once it is back where it began.
LEMMA ClassRefines ==
  ASSUME RInv, FindClassStep
  PROVE  Abstract!FindClass \/ UNCHANGED Abstract!vars
<1> DEFINE f == content[op.self]
           reported == out \cup {cursor}
<1>1. op # Idle /\ op.kind = "find_class" /\ stack = << >>
  BY DEF FindClassStep, Rerooted, Idle
<1>2. /\ f \in Forest /\ Closed(f) /\ forest[op.self] = f /\ op.self \in Node
      /\ Made(op.self) /\ op.i \in Elem
  BY <1>1, CallForest
<1>3. op.i \in Members(f)
  BY <1>2 DEF FindClassStep, Members
<1>4. PICK R : Roots(f, R)
  BY <1>1, CallForest
<1>5. /\ reported \subseteq ClassOf(f, op.i)
      /\ op.i \in reported
      /\ \A x \in out : f[x].next \in reported
  BY <1>1, <1>3 DEF RInv, CallFits
<1>6. Seen[op.self] = RootMap(f)
  BY <1>2, SeenIsRootMap DEF Seen
<1>7. CASE f[cursor].next = op.i
  <2>1. ret' = reported /\ op' = Idle /\ content' = content
    BY <1>2, <1>7 DEF FindClassStep, Answer
  <2> HIDE DEF f
  <2>2. \A x \in reported : f[x].next \in reported
    BY <1>5, <1>7
  <2>3. reported \in SUBSET Members(f)
    BY <1>5 DEF ClassOf
  <2> HIDE DEF reported
  <2>4. {j \in Members(f) : R[j] = R[op.i]} \subseteq reported
    BY <1>4, <1>5, <2>2, <2>3 DEF Roots, Rooted
  <2>5. ClassOf(f, op.i) = reported
    <3>1. ClassOf(f, op.i) = Same(f, R, op.i)
      BY <1>2, <1>3, <1>4, RootOfIsR
    <3> QED BY <3>1, <2>4, <1>5 DEF Same
  <2>6. /\ RootMap(f)[op.i] # Out
        /\ {j \in Elem : RootMap(f)[j] = RootMap(f)[op.i]} = reported
    BY <1>2, <1>3, <1>4, <2>5, RootMapIs
  <2>7. /\ Seen[op.self][op.i] # Out
        /\ {j \in Elem : Seen[op.self][j] = Seen[op.self][op.i]} = reported
    BY <1>6, <2>6
  <2>8. Abstract!FindClass
    BY <1>1, <2>1, <2>7
       DEF Abstract!FindClass, Abstract!Answer, Abstract!Root, Abstract!Class,
           Idle, Abstract!Idle, Seen
  <2> QED BY <2>8
<1>8. CASE f[cursor].next # op.i
  BY <1>2, <1>8 DEF FindClassStep, Abstract!vars
<1> QED BY <1>7, <1>8

\* A new version is one more version for the clients.
LEMMA NewIsSeen ==
  ASSUME RInv, NEW w \in Node, ~Made(w), NEW g \in Forest,
         content' = [content EXCEPT ![w] = g]
  PROVE  Seen[w] = NoForest /\ Seen' = [Seen EXCEPT ![w] = RootMap(g)]
<1>1. g # NoForest /\ content \in [Node -> Forest \cup {NoForest}]
  BY ConstantsAssumption DEF RInv, IInv, NodesInv, NodesTyped
<1>2. Seen' = [Seen EXCEPT ![w] = RootMap(g)]
  BY <1>1 DEF Seen
<1> QED BY <1>2, SeenIsRootMap DEF Seen

\* An add is one of VersionedPartition.
LEMMA AddRefines == ASSUME RInv, Add PROVE Abstract!Add
<1>1. op # Idle /\ op.kind = "add" /\ stack = << >>
  BY DEF Add, Rerooted, Idle
<1>2. PICK n \in Node, i \in Elem, f \in Forest :
        n = op.self /\ i = op.i /\ f = content[n]
  BY <1>1, CallForest
<1> DEFINE g == [f EXCEPT ![i] = Single(i)]
<1>3. Closed(f) /\ forest[n] = f /\ Made(n) /\ f[i] = Out
  BY <1>1, <1>2, CallForest DEF RInv, IInv, CallInForest, Permitted
<1>4. PICK R : Roots(f, R)
  BY <1>1, <1>2, CallForest
<1>5. PICK w \in Node :
        /\ ~Made(w) /\ content' = [content EXCEPT ![w] = g]
        /\ ret' = w /\ op' = Idle
  BY <1>2, <1>3 DEF Add, Fresh, HandOver, Answer
<1>6. g \in Forest /\ AddedTo(f, g, i)
  BY <1>3, UnaddAdd DEF AddedTo
<1>7. Seen[n] = RootMap(f)
  BY <1>2, <1>3, SeenIsRootMap DEF Seen
<1> HIDE DEF g
<1>8. RootMap(g) = [Seen[n] EXCEPT ![i] = i]
  BY <1>3, <1>4, <1>6, <1>7, AddIsSeen
<1>9. Seen[n][i] = Out
  BY <1>3, <1>4, <1>7, RootMapIs DEF Members
<1>10. /\ Seen[w] = NoForest
       /\ Seen' = [Seen EXCEPT ![w] = [Seen[n] EXCEPT ![i] = i]]
  BY <1>5, <1>6, <1>8, NewIsSeen
<1> QED BY <1>1, <1>2, <1>5, <1>9, <1>10
        DEF Abstract!Add, Abstract!Root, Abstract!NewVersion, Abstract!Exists,
            Abstract!Answer, Idle, Abstract!Idle, Seen

\* A merge is one of VersionedPartition.
LEMMA MergeRefines == ASSUME RInv, Merge PROVE Abstract!Merge
<1>1. op # Idle /\ op.kind = "merge" /\ stack = << >>
  BY DEF Merge, Rerooted, Idle
<1>2. op \in Calls /\ op.i \in Elem /\ op.j \in Elem
  BY <1>1, CallForest DEF Calls
<1>3. PICK n \in Node, i \in Elem, j \in Elem, f \in Forest :
        n = op.self /\ i = op.i /\ j = op.j /\ f = content[n]
  BY <1>1, <1>2, CallForest
<1> DEFINE r == Winner(f, i, j)
           c == IF r = i THEN j ELSE i
           h == Growth(f, i, j)
           g == AddEdge(f, c, r, r, h)
<1>4. /\ Closed(f) /\ forest[n] = f /\ Made(n)
      /\ i # j /\ IsRoot(f, i) /\ IsRoot(f, j)
  BY <1>1, <1>3, CallForest DEF RInv, IInv, CallInForest, Permitted
<1>5. PICK R : Roots(f, R)
  BY <1>1, <1>3, CallForest
<1>6. PICK w \in Node :
        /\ ~Made(w) /\ content' = [content EXCEPT ![w] = g]
        /\ ret' = w /\ op' = Idle
  BY <1>3, <1>4 DEF Merge, Fresh, HandOver, Answer
<1>7. /\ r \in Elem /\ c \in Elem /\ r # c /\ h \in {0, 1}
      /\ IsRoot(f, r) /\ IsRoot(f, c) /\ {r, c} = {i, j}
  BY <1>4 DEF Winner, Growth
<1>8. Seen[n] = RootMap(f)
  BY <1>3, <1>4, SeenIsRootMap DEF Seen
<1> HIDE DEF r, c, h
<1>9. g \in Forest /\ MergedIn(f, g, r, c, h)
  BY <1>7, UnmergeMerge DEF MergedIn
<1> HIDE DEF g
<1>10. RootMap(g) = [k \in Elem |-> IF Seen[n][k] \in {i, j} THEN r
                                    ELSE Seen[n][k]]
  BY <1>4, <1>5, <1>7, <1>8, <1>9, MergeIsSeen
<1>11. /\ Seen[w] = NoForest
       /\ Seen' = [Seen EXCEPT
                     ![w] = [k \in Elem |-> IF Seen[n][k] \in {i, j} THEN r
                                            ELSE Seen[n][k]]]
  BY <1>6, <1>9, <1>10, NewIsSeen
<1>12. r \in {i, j}
  BY <1>7
<1> QED BY <1>1, <1>3, <1>6, <1>11, <1>12
        DEF Abstract!Merge, Abstract!Root, Abstract!NewVersion, Abstract!Exists,
            Abstract!Answer, Idle, Abstract!Idle, Seen

\* Every step of persistent_disjoint_set is a step of VersionedPartition or
\* invisible to it.
LEMMA StepRefines == RInv /\ [Next]_vars => [Abstract!Next]_(Abstract!vars)
<1> SUFFICES ASSUME RInv, [Next]_vars
             PROVE  [Abstract!Next]_(Abstract!vars)
  OBVIOUS
<1>1. CASE UNCHANGED vars
  BY <1>1 DEF vars, Abstract!vars
<1>2. ASSUME NEW c \in Calls, Call(c) PROVE Abstract!Call(c)
  <2>1. c.self \in Node /\ Made(c.self)
    BY <1>2 DEF Calls, Call
  <2>2. Seen[c.self] # NoForest
    BY <2>1, SeenIsRootMap DEF Seen
  <2> QED BY <1>2, <2>2
          DEF Call, Abstract!Call, Abstract!Exists, Idle, Abstract!Idle, Seen
<1>3. CASE Descend \/ Rotate \/ Return \/ FindClimb
  BY <1>3 DEF Descend, Rotate, Return, FindClimb, Abstract!vars
<1>4. CASE FindRoot
  BY <1>4, FindRefines DEF Abstract!Next
<1>5. CASE FindNoClass
  BY <1>5, NoClassRefines DEF Abstract!Next
<1>6. CASE FindClassStep
  BY <1>6, ClassRefines DEF Abstract!Next
<1>7. CASE Add
  BY <1>7, AddRefines DEF Abstract!Next
<1>8. CASE Merge
  BY <1>8, MergeRefines DEF Abstract!Next
<1>9. Calls = Abstract!Calls
  BY DEF Calls, Abstract!Calls
<1> QED BY <1>1, <1>2, <1>3, <1>4, <1>5, <1>6, <1>7, <1>8, <1>9
        DEF Next, Abstract!Next

\* persistent_disjoint_set implements VersionedPartition: clients see immutable
\* partitions, find() answers the root of a class and find_class() all of it,
\* whatever rerooting, climbing and going round the lists does inside.
THEOREM Refinement == Spec => ImplementsVersionedPartition
  BY InitRefines, StepRefines, RefinementInvariance, PTL
     DEF Spec, ImplementsVersionedPartition, Abstract!Spec
=============================================================================
