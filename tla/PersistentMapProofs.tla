------------------------ MODULE PersistentMapProofs -------------------------
(***************************************************************************)
(* Proofs about PersistentMap for every set of nodes, keys and values:     *)
(* its type invariant, that no step disturbs any version, that the         *)
(* assume()s of reroot() hold, and that it implements VersionedMap.        *)
(*                                                                         *)
(* The argument needs no induction over the version tree.  The history     *)
(* variable `content` gives every version its map, and the invariant       *)
(* relates only NEIGHBOURS: a version and its base differ by the edit      *)
(* stored between them (VersionsPersist).  A rotation touches two nodes,   *)
(* set() and erase() touch two nodes, and each keeps the relation.         *)
(***************************************************************************)
EXTENDS PersistentMap, SequenceTheorems, TLAPS

\* Exactly the allocated nodes have a content.
ContentOfMade == \A n \in Node : content[n] \in Map <=> Made(n)

\* The outermost frame of reroot() is the version the client called on, and
\* once every frame has returned that version owns the table.
FramesServeCall ==
  /\ op # Idle => Made(op.self)
  /\ stack # << >> => op # Idle /\ stack[Len(stack)] = op.self
  /\ stack = << >> /\ op # Idle => mode[op.self] = "BASE"

IInv == TypeOK /\ ContentOfMade /\ VersionsPersist /\ FramesServeCall

\* What IInv says of the nodes alone.
NodesTyped ==
  /\ mode \in [Node -> {"FREE", "BASE"} \cup Edits]
  /\ base \in [Node -> Node \cup {NoNode}]
  /\ key \in [Node -> Key \cup {NoKey}]
  /\ val \in [Node -> Val \cup {Absent}]
  /\ table \in [Node -> Map \cup {NoMap}]
  /\ content \in [Node -> Map \cup {NoMap}]

NodesInv == NodesTyped /\ ContentOfMade /\ VersionsPersist

-----------------------------------------------------------------------------
\* The initial state satisfies the invariant: nothing is allocated.
LEMMA InitInv == Init => IInv
  BY ConstantsAssumption
     DEF Init, IInv, TypeOK, ContentOfMade, VersionsPersist, FramesServeCall,
         TableIsContent, EditIsContent, Made, Edits, Map, Idle

\* Storing a value or Absent under a key gives a map.
LEMMA ExceptIsMap ==
  ASSUME NEW t \in Map, NEW k \in Key, NEW x \in Val \cup {Absent}
  PROVE  /\ [t EXCEPT ![k] = x] \in Map
         /\ [t EXCEPT ![k] = x][k] = x
         /\ [[t EXCEPT ![k] = x] EXCEPT ![k] = t[k]] = t
  BY DEF Map

\* A table that matches the content of its node stays the table of the family
\* when set() or erase() hands it to a fresh node: the edit left behind leads
\* back to the old content.
LEMMA HandOverKeeps ==
  ASSUME NodesInv,
         NEW n \in Node, mode[n] = "BASE",
         NEW w \in Node, ~Made(w),
         NEW k \in Key, NEW x \in Val \cup {Absent},
         NEW m \in Edits,
         m = "INS" <=> x = Absent,
         m = "REM" <=> table[n][k] = Absent,
         HandOver(n, w, [table[n] EXCEPT ![k] = x], m, k, table[n][k]),
         content' = [content EXCEPT ![w] = [content[n] EXCEPT ![k] = x]]
  PROVE  NodesInv' /\ \A y \in Node : Made(y) => Made(y)'
<1>1. n # w /\ Made(n)
  BY DEF Made
<1>2. content[n] \in Map /\ table[n] = content[n]
  BY <1>1 DEF NodesInv, ContentOfMade, VersionsPersist, TableIsContent
<1> DEFINE t == [content[n] EXCEPT ![k] = x]
<1>3. /\ t \in Map /\ t[k] = x /\ [t EXCEPT ![k] = content[n][k]] = content[n]
      /\ content[n][k] \in Val \cup {Absent}
  BY <1>2, ExceptIsMap DEF Map
<1> HIDE DEF t
<1>4. /\ mode' = [mode EXCEPT ![w] = "BASE", ![n] = m]
      /\ base' = [base EXCEPT ![n] = w]
      /\ key' = [key EXCEPT ![n] = k]
      /\ val' = [val EXCEPT ![n] = content[n][k]]
      /\ table' = [table EXCEPT ![w] = t, ![n] = NoMap]
      /\ content' = [content EXCEPT ![w] = t]
  BY <1>2 DEF HandOver, t
<1>5. NodesTyped'
  BY <1>3, <1>4 DEF NodesInv, NodesTyped
<1>6. /\ mode'[n] = m /\ mode'[w] = "BASE"
      /\ base'[n] = w /\ key'[n] = k /\ val'[n] = content[n][k]
      /\ table'[w] = t /\ content'[w] = t /\ content'[n] = content[n]
  BY <1>1, <1>4 DEF NodesInv, NodesTyped
<1>7. \A y \in Node \ {n, w} :
        /\ mode'[y] = mode[y] /\ base'[y] = base[y] /\ key'[y] = key[y]
        /\ val'[y] = val[y] /\ table'[y] = table[y] /\ content'[y] = content[y]
  BY <1>4 DEF NodesInv, NodesTyped
<1>8. ContentOfMade'
  BY <1>1, <1>2, <1>3, <1>6, <1>7 DEF NodesInv, ContentOfMade, Made, Edits
<1>9. \A y \in Node : Made(y) => Made(y)' /\ content'[y] = content[y]
  BY <1>1, <1>6, <1>7 DEF Made, Edits
<1>10. VersionsPersist'
  <2> SUFFICES ASSUME NEW y \in Node
               PROVE  TableIsContent(y)' /\ EditIsContent(y)'
    BY DEF VersionsPersist
  <2>1. CASE y = w
    BY <2>1, <1>6 DEF TableIsContent, EditIsContent, Edits
  <2>2. CASE y = n
    BY <2>2, <1>2, <1>3, <1>6
       DEF TableIsContent, EditIsContent, Edits, Made
  <2>3. CASE y \notin {n, w}
    <3>1. TableIsContent(y) /\ EditIsContent(y)
      BY DEF NodesInv, VersionsPersist
    <3>2. TableIsContent(y)'
      BY <2>3, <3>1, <1>7 DEF TableIsContent
    <3>3. EditIsContent(y)'
      BY <2>3, <3>1, <1>7, <1>9 DEF EditIsContent
    <3> QED BY <3>2, <3>3
  <2> QED BY <2>1, <2>2, <2>3
<1> QED BY <1>5, <1>8, <1>9, <1>10 DEF NodesInv

\* A rotation gives node n the table with n's edit applied and leaves the
\* inverse edit at its old base: neither loses what it held.
LEMMA RotateKeeps ==
  ASSUME NodesInv,
         NEW n \in Node, mode[n] \in Edits, mode[base[n]] = "BASE",
         NEW b, b = base[n],
         mode' = [mode EXCEPT ![n] = "BASE", ![b] = InverseMode(n)],
         base' = [base EXCEPT ![n] = NoNode, ![b] = n],
         key' = [key EXCEPT ![n] = NoKey, ![b] = key[n]],
         val' = [val EXCEPT ![n] = Absent, ![b] = InverseVal(n, table[b])],
         table' = [table EXCEPT ![n] = Applied(n, table[b]), ![b] = NoMap],
         content' = content
  PROVE  NodesInv' /\ \A y \in Node : Made(y) <=> Made(y)'
<1>1. /\ b \in Node /\ n # b /\ Made(n) /\ Made(b)
      /\ key[n] \in Key /\ val[n] \in Val \cup {Absent}
      /\ mode[n] = "INS" <=> content[b][key[n]] = Absent
      /\ mode[n] = "REM" <=> val[n] = Absent
      /\ content[n] = [content[b] EXCEPT ![key[n]] = val[n]]
  BY DEF NodesInv, NodesTyped, VersionsPersist, EditIsContent, Edits, Made
<1>2. content[b] \in Map /\ table[b] = content[b]
  BY <1>1 DEF NodesInv, ContentOfMade, VersionsPersist, TableIsContent
<1>3. /\ content[n] \in Map /\ content[n][key[n]] = val[n]
      /\ content[b] = [content[n] EXCEPT ![key[n]] = content[b][key[n]]]
      /\ content[b][key[n]] \in Val \cup {Absent}
  BY <1>1, <1>2, ExceptIsMap DEF Map
<1>4. Applied(n, table[b]) = content[n]
  BY <1>1, <1>2 DEF Applied, Edits
<1>5. InverseVal(n, table[b]) = content[b][key[n]]
  BY <1>1, <1>2 DEF InverseVal, Edits
<1>6. /\ InverseMode(n) \in Edits
      /\ InverseMode(n) = "INS" <=> val[n] = Absent
      /\ InverseMode(n) = "REM" <=> content[b][key[n]] = Absent
  BY <1>1 DEF InverseMode, Edits
<1>7. NodesTyped'
  BY <1>1, <1>3, <1>4, <1>5, <1>6 DEF NodesInv, NodesTyped
<1>8. /\ mode'[n] = "BASE" /\ table'[n] = content[n]
      /\ mode'[b] = InverseMode(n) /\ base'[b] = n /\ key'[b] = key[n]
      /\ val'[b] = content[b][key[n]]
  BY <1>1, <1>4, <1>5 DEF NodesInv, NodesTyped
<1>9. \A y \in Node \ {n, b} :
        /\ mode'[y] = mode[y] /\ base'[y] = base[y] /\ key'[y] = key[y]
        /\ val'[y] = val[y] /\ table'[y] = table[y]
  BY <1>1 DEF NodesInv, NodesTyped
<1>10. \A y \in Node : Made(y) <=> Made(y)'
  BY <1>1, <1>6, <1>8, <1>9 DEF Made, Edits
<1>11. ContentOfMade'
  BY <1>10 DEF NodesInv, ContentOfMade
<1>12. VersionsPersist'
  <2> SUFFICES ASSUME NEW y \in Node
               PROVE  TableIsContent(y)' /\ EditIsContent(y)'
    BY DEF VersionsPersist
  <2>1. CASE y = n
    BY <2>1, <1>8 DEF TableIsContent, EditIsContent, Edits
  <2>2. CASE y = b
    <3>1. TableIsContent(b)'
      BY <1>6, <1>8 DEF TableIsContent, Edits
    <3>2. /\ base'[b] = n /\ key'[b] = key[n] /\ Made(n)'
          /\ mode'[b] = "INS" <=> content'[n][key[n]] = Absent
          /\ mode'[b] = "REM" <=> val'[b] = Absent
          /\ content'[b] = [content'[n] EXCEPT ![key[n]] = val'[b]]
      BY <1>1, <1>3, <1>6, <1>8, <1>10
    <3>3. EditIsContent(b)'
      BY <1>1, <3>2 DEF EditIsContent
    <3> QED BY <2>2, <3>1, <3>3
  <2>3. CASE y \notin {n, b}
    <3>1. TableIsContent(y) /\ EditIsContent(y)
      BY DEF NodesInv, VersionsPersist
    <3>2. TableIsContent(y)'
      BY <2>3, <3>1, <1>9 DEF TableIsContent
    <3>3. EditIsContent(y)'
      BY <2>3, <3>1, <1>9, <1>10 DEF EditIsContent
    <3> QED BY <3>2, <3>3
  <2> QED BY <2>1, <2>2, <2>3
<1> QED BY <1>7, <1>10, <1>11, <1>12 DEF NodesInv

-----------------------------------------------------------------------------
(* One lemma per action.                                                   *)

LEMMA CreateKeeps == ASSUME IInv, NEW n \in Node, Create(n) PROVE IInv'
<1>1. EmptyMap \in Map
  BY DEF EmptyMap, Map
<1>2. TypeOK'
  BY <1>1 DEF IInv, TypeOK, Create
<1>3. /\ ~Made(n) /\ mode'[n] = "BASE" /\ table'[n] = EmptyMap
      /\ content'[n] = EmptyMap
      /\ \A y \in Node \ {n} :
           mode'[y] = mode[y] /\ table'[y] = table[y] /\ content'[y] = content[y]
      /\ \A y \in Node : Made(y) => Made(y)' /\ content'[y] = content[y]
  BY DEF IInv, TypeOK, Create, Fresh, Made, Edits
<1>4. ContentOfMade'
  BY <1>1, <1>3 DEF IInv, ContentOfMade, Made
<1>5. VersionsPersist'
  <2> SUFFICES ASSUME NEW y \in Node
               PROVE  TableIsContent(y)' /\ EditIsContent(y)'
    BY DEF VersionsPersist
  <2>1. CASE y = n
    BY <2>1, <1>3 DEF TableIsContent, EditIsContent, Edits
  <2>2. CASE y # n
    <3>1. TableIsContent(y) /\ EditIsContent(y)
      BY DEF IInv, VersionsPersist
    <3>2. base' = base /\ key' = key /\ val' = val
      BY DEF Create
    <3>3. TableIsContent(y)'
      BY <2>2, <3>1, <1>3 DEF TableIsContent
    <3>4. EditIsContent(y)'
      BY <2>2, <3>1, <3>2, <1>3 DEF EditIsContent
    <3> QED BY <3>3, <3>4
  <2> QED BY <2>1, <2>2
<1>6. FramesServeCall'
  BY <1>3 DEF IInv, FramesServeCall, Create, TypeOK
<1> QED BY <1>2, <1>4, <1>5, <1>6 DEF IInv

LEMMA CallKeeps == ASSUME IInv, NEW c \in Calls, Call(c) PROVE IInv'
<1>1. c.self \in Node
  BY DEF Calls
<1>2. TypeOK'
  BY <1>1 DEF IInv, TypeOK, Call, nodeVars
<1>3. ContentOfMade' /\ VersionsPersist'
  BY DEF IInv, Call, nodeVars, ContentOfMade, VersionsPersist, TableIsContent,
         EditIsContent, Made
<1>4. FramesServeCall'
  BY <1>1 DEF IInv, FramesServeCall, Call, nodeVars, Made, Calls, Idle
<1> QED BY <1>2, <1>3, <1>4 DEF IInv

LEMMA DescendKeeps == ASSUME IInv, Descend PROVE IInv'
<1> DEFINE b == base[Head(stack)]
<1>1. /\ stack \in Seq(Node) /\ stack # << >> /\ Head(stack) \in Node
      /\ mode[Head(stack)] \in Edits
  BY HeadTailProperties DEF IInv, TypeOK, Descend
<1>2. b \in Node /\ Made(b)
  BY <1>1 DEF IInv, VersionsPersist, EditIsContent
<1>3. stack' = << b >> \o stack
  BY DEF Descend
<1> HIDE DEF b
<1>4. /\ stack' \in Seq(Node) /\ Len(stack') = Len(stack) + 1
      /\ \A i \in 1 .. Len(stack) + 1 :
           stack'[i] = IF i = 1 THEN b ELSE stack[i - 1]
  BY <1>1, <1>2, <1>3, ConcatProperties
<1>5. TypeOK'
  BY <1>4 DEF IInv, TypeOK, Descend, nodeVars
<1>6. ContentOfMade' /\ VersionsPersist'
  BY DEF IInv, Descend, nodeVars, ContentOfMade, VersionsPersist,
         TableIsContent, EditIsContent, Made
<1>7. FramesServeCall'
  <2>1. /\ op' = op /\ mode' = mode /\ Len(stack) \in Nat \ {0}
        /\ stack[Len(stack)] = op.self /\ op # Idle /\ Made(op.self)
    BY <1>1 DEF IInv, FramesServeCall, Descend, nodeVars
  <2>2. stack' # << >> /\ stack'[Len(stack')] = op.self
    BY <2>1, <1>4
  <2> QED BY <2>1, <2>2 DEF FramesServeCall, Made
<1> QED BY <1>5, <1>6, <1>7 DEF IInv

LEMMA RotateStepKeeps == ASSUME IInv, Rotate PROVE IInv'
<1> DEFINE n == Head(stack)
<1>1. stack \in Seq(Node) /\ stack # << >> /\ n \in Node
  BY HeadTailProperties DEF IInv, TypeOK, Rotate
<1>2. NodesInv
  BY DEF IInv, TypeOK, NodesInv, NodesTyped
<1>3. NodesInv' /\ \A y \in Node : Made(y) <=> Made(y)'
  BY <1>1, <1>2, RotateKeeps DEF Rotate
<1>4. TypeOK'
  BY <1>3 DEF IInv, TypeOK, NodesInv, NodesTyped, Rotate
<1>5. FramesServeCall'
  <2>1. op' = op /\ stack' = stack /\ op # Idle /\ stack \in Seq(Node)
    BY <1>1 DEF Rotate, IInv, FramesServeCall
  <2>2. op.self \in Node
    BY <2>1 DEF IInv, TypeOK, Calls
  <2> QED BY <1>1, <1>3, <2>1, <2>2 DEF IInv, FramesServeCall
<1> QED BY <1>3, <1>4, <1>5 DEF IInv, NodesInv

LEMMA ReturnKeeps == ASSUME IInv, Return PROVE IInv'
<1>1. /\ stack \in Seq(Node) /\ stack # << >> /\ Head(stack) = stack[1]
      /\ mode[stack[1]] = "BASE" /\ stack' = Tail(stack)
      /\ op' = op /\ mode' = mode
  BY DEF IInv, TypeOK, Return, nodeVars
<1>2. /\ stack' \in Seq(Node) /\ Len(stack') = Len(stack) - 1
      /\ \A i \in 1 .. Len(stack') : stack'[i] = stack[i + 1]
  BY <1>1, HeadTailProperties
<1>3. TypeOK'
  BY <1>2 DEF IInv, TypeOK, Return, nodeVars
<1>4. ContentOfMade' /\ VersionsPersist'
  BY DEF IInv, Return, nodeVars, ContentOfMade, VersionsPersist,
         TableIsContent, EditIsContent, Made
<1>5. FramesServeCall'
  <2>1. /\ Len(stack) \in Nat \ {0} /\ stack[Len(stack)] = op.self
        /\ op # Idle /\ Made(op.self)
    BY <1>1 DEF IInv, FramesServeCall
  <2>2. stack' # << >> => stack'[Len(stack')] = op.self
    BY <1>2, <2>1
  <2>3. stack' = << >> => mode[op.self] = "BASE"
    <3>1. stack' = << >> => Len(stack') = 0
      OBVIOUS
    <3> QED BY <3>1, <1>1, <1>2, <2>1
  <2> QED BY <1>1, <2>1, <2>2, <2>3 DEF FramesServeCall, Made
<1> QED BY <1>3, <1>4, <1>5 DEF IInv

LEMMA GetKeeps == ASSUME IInv, Get PROVE IInv'
<1>1. /\ op \in Calls /\ op.self \in Node /\ op.key \in Key
      /\ mode[op.self] = "BASE"
  BY DEF IInv, TypeOK, FramesServeCall, Get, Rerooted, Calls, Idle
<1>2. table[op.self] \in Map
  BY <1>1 DEF IInv, VersionsPersist, TableIsContent, ContentOfMade, Made
<1>3. table[op.self][op.key] \in Val \cup {Absent}
  BY <1>1, <1>2 DEF Map
<1>4. TypeOK'
  BY <1>3 DEF IInv, TypeOK, Get, nodeVars
<1>5. ContentOfMade' /\ VersionsPersist'
  BY DEF IInv, Get, nodeVars, ContentOfMade, VersionsPersist, TableIsContent,
         EditIsContent, Made
<1>6. FramesServeCall'
  BY DEF FramesServeCall, Get, Rerooted
<1> QED BY <1>4, <1>5, <1>6 DEF IInv

LEMMA SetKeeps == ASSUME IInv, Set PROVE IInv'
<1> DEFINE n == op.self
           k == op.key
           old == table[n][k]
<1>1. /\ op \in Calls /\ n \in Node /\ k \in Key /\ op.val \in Val
      /\ mode[n] = "BASE" /\ stack = << >>
  BY DEF IInv, TypeOK, FramesServeCall, Set, Rerooted, Calls, Idle
<1>2. PICK w \in Node :
        /\ ~Made(w)
        /\ HandOver(n, w, [table[n] EXCEPT ![k] = op.val], SetEdit(old), k, old)
        /\ content' = [content EXCEPT ![w] = [content[n] EXCEPT ![k] = op.val]]
        /\ ret' = w
  BY DEF Set, Fresh
<1>3. /\ SetEdit(old) \in Edits
      /\ SetEdit(old) = "INS" <=> op.val = Absent
      /\ SetEdit(old) = "REM" <=> old = Absent
  BY <1>1, ConstantsAssumption DEF SetEdit, Edits
<1>4. NodesInv
  BY DEF IInv, TypeOK, NodesInv, NodesTyped
<1> HIDE DEF n, k, old
<1>5. NodesInv'
  BY <1>1, <1>2, <1>3, <1>4, HandOverKeeps DEF old
<1>6. op' = Idle /\ stack' = stack
  BY DEF Set
<1>7. TypeOK'
  BY <1>1, <1>2, <1>5, <1>6 DEF NodesInv, NodesTyped, TypeOK, IInv
<1>8. FramesServeCall'
  BY <1>1, <1>6 DEF FramesServeCall
<1> QED BY <1>5, <1>7, <1>8 DEF IInv, NodesInv

LEMMA EraseKeeps == ASSUME IInv, Erase PROVE IInv'
<1> DEFINE n == op.self
           k == op.key
<1>1. /\ op \in Calls /\ n \in Node /\ k \in Key
      /\ mode[n] = "BASE" /\ stack = << >> /\ table[n][k] # Absent
  BY DEF IInv, TypeOK, FramesServeCall, Erase, Rerooted, Calls, Idle
<1>2. PICK w \in Node :
        /\ ~Made(w)
        /\ HandOver(n, w, [table[n] EXCEPT ![k] = Absent], "INS", k, table[n][k])
        /\ content' = [content EXCEPT ![w] = [content[n] EXCEPT ![k] = Absent]]
        /\ ret' = w
  BY DEF Erase, Fresh
<1>3. NodesInv
  BY DEF IInv, TypeOK, NodesInv, NodesTyped
<1>4. "INS" \in Edits /\ Absent \in Val \cup {Absent}
  BY DEF Edits
<1> HIDE DEF n, k
<1>5. NodesInv'
  BY <1>1, <1>2, <1>3, <1>4, HandOverKeeps
<1>6. op' = Idle /\ stack' = stack
  BY DEF Erase
<1>7. TypeOK'
  BY <1>1, <1>2, <1>5, <1>6 DEF NodesInv, NodesTyped, TypeOK, IInv
<1>8. FramesServeCall'
  BY <1>1, <1>6 DEF FramesServeCall
<1> QED BY <1>5, <1>7, <1>8 DEF IInv, NodesInv

LEMMA EraseNothingKeeps == ASSUME IInv, EraseNothing PROVE IInv'
<1>1. op \in Calls /\ op.self \in Node
  BY DEF IInv, TypeOK, EraseNothing, Rerooted, Calls, Idle
<1>2. TypeOK'
  BY <1>1 DEF IInv, TypeOK, EraseNothing, nodeVars
<1>3. ContentOfMade' /\ VersionsPersist'
  BY DEF IInv, EraseNothing, nodeVars, ContentOfMade, VersionsPersist,
         TableIsContent, EditIsContent, Made
<1>4. FramesServeCall'
  BY DEF FramesServeCall, EraseNothing, Rerooted
<1> QED BY <1>2, <1>3, <1>4 DEF IInv

LEMMA StepKeeps == IInv /\ [Next]_vars => IInv'
<1> SUFFICES ASSUME IInv, [Next]_vars PROVE IInv'
  OBVIOUS
<1>1. CASE UNCHANGED vars
  BY <1>1 DEF vars, IInv, TypeOK, ContentOfMade, VersionsPersist,
              TableIsContent, EditIsContent, FramesServeCall, Made
<1>2. CASE \E n \in Node : Create(n)
  BY <1>2, CreateKeeps
<1>3. CASE \E c \in Calls : Call(c)
  BY <1>3, CallKeeps
<1>4. CASE Descend
  BY <1>4, DescendKeeps
<1>5. CASE Rotate
  BY <1>5, RotateStepKeeps
<1>6. CASE Return
  BY <1>6, ReturnKeeps
<1>7. CASE Get
  BY <1>7, GetKeeps
<1>8. CASE Set
  BY <1>8, SetKeeps
<1>9. CASE EraseNothing
  BY <1>9, EraseNothingKeeps
<1>10. CASE Erase
  BY <1>10, EraseKeeps
<1> QED BY <1>1, <1>2, <1>3, <1>4, <1>5, <1>6, <1>7, <1>8, <1>9, <1>10
        DEF Next

\* The inductive invariant holds throughout.
THEOREM Invariance == Spec => []IInv
  BY InitInv, StepKeeps, PTL DEF Spec

-----------------------------------------------------------------------------
(* The properties.                                                         *)

\* Every variable keeps its type.
THEOREM TypeCorrect == Spec => []TypeOK
<1>1. IInv => TypeOK
  BY DEF IInv
<1> QED BY <1>1, Invariance, PTL

\* persistent_map keeps every version what it was made to be: no sequence of
\* reads, updates and rerootings changes what an older version stands for.
THEOREM VersionsAreImmutable == Spec => []VersionsPersist
<1>1. IInv => VersionsPersist
  BY DEF IInv
<1> QED BY <1>1, Invariance, PTL

\* The assume()s of reroot() hold: the key of a REM or UPD node is in the
\* table the moment the edit is applied.
THEOREM AssumptionsHold == Spec => []RerootAssumptions
<1>1. IInv => RerootAssumptions
  <2> SUFFICES ASSUME IInv, stack # << >>,
                      mode[Head(stack)] \in {"REM", "UPD"},
                      mode[base[Head(stack)]] = "BASE"
               PROVE  table[base[Head(stack)]][key[Head(stack)]] # Absent
    BY DEF RerootAssumptions
  <2>1. Head(stack) \in Node
    BY HeadTailProperties DEF IInv, TypeOK
  <2>2. EditIsContent(Head(stack)) /\ TableIsContent(base[Head(stack)])
    BY <2>1 DEF IInv, VersionsPersist, EditIsContent, Edits
  <2> QED BY <2>2 DEF EditIsContent, TableIsContent, Edits
<1> QED BY <1>1, Invariance, PTL

-----------------------------------------------------------------------------
(* Refinement.                                                             *)

\* What a completed call reads in the table is what its version holds.
LEMMA AnswerIsContent ==
  ASSUME IInv, op # Idle, stack = << >>
  PROVE  /\ op \in Calls /\ op.self \in Node /\ op.key \in Key
         /\ Abstract!Exists(op.self)
         /\ table[op.self][op.key] = content[op.self][op.key]
<1>1. op \in Calls /\ op.self \in Node /\ op.key \in Key
  BY DEF IInv, TypeOK, Calls
<1>2. mode[op.self] = "BASE"
  BY DEF IInv, FramesServeCall
<1>3. content[op.self] \in Map /\ table[op.self] = content[op.self]
  BY <1>1, <1>2 DEF IInv, ContentOfMade, VersionsPersist, TableIsContent, Made
<1> QED BY <1>1, <1>3, ConstantsAssumption DEF Abstract!Exists, Map

\* A node exists for the clients exactly when it is allocated.
LEMMA ExistsIsMade ==
  ASSUME IInv, NEW n \in Node PROVE Abstract!Exists(n) <=> Made(n)
  BY ConstantsAssumption DEF IInv, TypeOK, ContentOfMade, Abstract!Exists, Map

\* Every step of persistent_map is a step of VersionedMap or invisible to it.
LEMMA StepRefines == IInv /\ [Next]_vars => [Abstract!Next]_(Abstract!vars)
<1> SUFFICES ASSUME IInv, [Next]_vars
             PROVE  [Abstract!Next]_(Abstract!vars)
  OBVIOUS
<1>1. CASE UNCHANGED vars
  BY <1>1 DEF vars, Abstract!vars
<1>2. ASSUME NEW n \in Node, Create(n) PROVE Abstract!Create(n)
  BY <1>2, ExistsIsMade
     DEF Create, Fresh, Abstract!Create, Idle, Abstract!Idle,
         EmptyMap, Abstract!EmptyMap
<1>3. ASSUME NEW c \in Calls, Call(c) PROVE Abstract!Call(c)
  <2>1. c.self \in Node
    BY DEF Calls
  <2> QED BY <1>3, <2>1, ExistsIsMade
          DEF Call, Abstract!Call, Idle, Abstract!Idle
<1>4. CASE Descend \/ Rotate \/ Return
  BY <1>4 DEF Descend, Rotate, Return, Abstract!vars
<1>5. CASE Get
  <2>1. op # Idle /\ stack = << >>
    BY <1>5 DEF Get, Rerooted, Idle
  <2>2. Abstract!Get
    BY <1>5, <2>1, AnswerIsContent
       DEF Get, Rerooted, Abstract!Get, Idle, Abstract!Idle
  <2> QED BY <2>2 DEF Abstract!Next
<1>6. CASE Set
  <2>1. PICK w \in Node :
          /\ ~Made(w)
          /\ content' = [content EXCEPT
                           ![w] = [content[op.self] EXCEPT ![op.key] = op.val]]
          /\ ret' = w
    BY <1>6 DEF Set, Fresh
  <2>2. Abstract!Set
    BY <1>6, <2>1, ExistsIsMade
       DEF Set, Rerooted, Abstract!Set, Abstract!Update, Idle, Abstract!Idle
  <2> QED BY <2>2 DEF Abstract!Next
<1>7. CASE EraseNothing
  <2>1. op # Idle /\ stack = << >>
    BY <1>7 DEF EraseNothing, Rerooted, Idle
  <2>2. Abstract!EraseNothing
    BY <1>7, <2>1, AnswerIsContent
       DEF EraseNothing, Rerooted, Abstract!EraseNothing, Idle, Abstract!Idle
  <2> QED BY <2>2 DEF Abstract!Next
<1>8. CASE Erase
  <2>1. op # Idle /\ stack = << >>
    BY <1>8 DEF Erase, Rerooted, Idle
  <2>2. PICK w \in Node :
          /\ ~Made(w)
          /\ content' = [content EXCEPT
                           ![w] = [content[op.self] EXCEPT ![op.key] = Absent]]
          /\ ret' = w
    BY <1>8 DEF Erase, Fresh
  <2>3. Abstract!Erase
    BY <1>8, <2>1, <2>2, ExistsIsMade, AnswerIsContent
       DEF Erase, Rerooted, Abstract!Erase, Abstract!Update, Idle, Abstract!Idle
  <2> QED BY <2>3 DEF Abstract!Next
<1>9. Calls = Abstract!Calls
  BY DEF Calls, Abstract!Calls
<1> QED BY <1>1, <1>2, <1>3, <1>4, <1>5, <1>6, <1>7, <1>8, <1>9
        DEF Next, Abstract!Next

\* persistent_map implements VersionedMap: whatever rerooting does inside,
\* clients see immutable maps.
THEOREM Refinement == Spec => ImplementsVersionedMap
<1>1. Init => Abstract!Init
  BY DEF Init, Abstract!Init, Idle, Abstract!Idle
<1> QED BY <1>1, Invariance, StepRefines, PTL
        DEF Spec, ImplementsVersionedMap, Abstract!Spec
=============================================================================
