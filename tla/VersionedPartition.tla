------------------------- MODULE VersionedPartition -------------------------
(***************************************************************************)
(* What a persistent disjoint set promises: every version is a partition   *)
(* of the elements added so far, with one root per class, that never       *)
(* changes; add and merge give new versions.                               *)
(*                                                                         *)
(* A version is the function from an element to the root of its class.     *)
(***************************************************************************)

CONSTANTS Version, Elem,
          Out,          \* "not an element", in place of a root
          NoVersion,    \* content of a version that does not exist yet
          Initial       \* what the first version may be

VARIABLES content, op, ret

vars == <<content, op, ret>>

Exists(v) == content[v] # NoVersion

Root(v, i) == content[v][i]

Class(v, i) == {j \in Elem : Root(v, j) = Root(v, i)}

\* merge() takes two different roots and add() a new element: see Call.
Calls == [kind : {"find", "find_class", "add"}, self : Version, i : Elem]
           \cup [kind : {"merge"}, self : Version, i : Elem, j : Elem]

Idle == [kind |-> "idle"]

Init == /\ \E v \in Version, f \in Initial :
             content = [u \in Version |-> IF u = v THEN f ELSE NoVersion]
        /\ op = Idle
        /\ ret = Out

Call(c) == /\ op = Idle
           /\ Exists(c.self)
           /\ op' = c
           /\ UNCHANGED <<content, ret>>

Answer(r) == /\ ret' = r
             /\ op' = Idle

NewVersion(f) == \E w \in Version : /\ ~Exists(w)
                                    /\ content' = [content EXCEPT ![w] = f]
                                    /\ Answer(w)

Find == /\ op.kind = "find"
        /\ Answer(Root(op.self, op.i))
        /\ UNCHANGED content

FindClass == /\ op.kind = "find_class"
             /\ Answer(IF Root(op.self, op.i) = Out THEN {}
                       ELSE Class(op.self, op.i))
             /\ UNCHANGED content

Add == /\ op.kind = "add"
       /\ Root(op.self, op.i) = Out
       /\ NewVersion([content[op.self] EXCEPT ![op.i] = op.i])

\* The two classes become one, under either of the two roots.
Merge == /\ op.kind = "merge"
         /\ \E root \in {op.i, op.j} :
              NewVersion([k \in Elem |->
                            IF Root(op.self, k) \in {op.i, op.j} THEN root
                            ELSE Root(op.self, k)])

Next == \/ \E c \in Calls : Call(c)
        \/ Find \/ FindClass \/ Add \/ Merge

Spec == Init /\ [][Next]_vars
=============================================================================
