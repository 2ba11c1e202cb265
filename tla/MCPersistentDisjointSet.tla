---------------------- MODULE MCPersistentDisjointSet -----------------------
(* Three versions over four elements.  The first version is three classes, *)
(* to which an element can still be added, or two pairs, which a merge     *)
(* makes a tree of height two.                                             *)
EXTENDS PersistentDisjointSet, TLC

CONSTANTS e1, e2, e3, e4

MCElem == {e1, e2, e3, e4}

MCSingles(S) == [i \in MCElem |-> IF i \in S THEN Single(i) ELSE Out]

MCPair(r, c) == r :> [parent |-> r, next |-> c, height |-> 1]
                  @@ c :> [parent |-> r, next |-> r, height |-> 0]

MCPairs == MCPair(e1, e2) @@ MCPair(e3, e4)

MCInitialForests == {MCSingles({e1, e2, e3}), MCPairs}
=============================================================================
