--------------------------- MODULE PersistentMap ----------------------------
(***************************************************************************)
(* persistent_map<Key, Val> (src/data/persistent_map.h): a hash map whose  *)
(* versions share ONE table.  The versions of a family form a tree; the    *)
(* node that owns the table is the BASE, every other node says how it      *)
(* differs from the next node towards the BASE (its `base`):               *)
(*   REM  my map is my base's without `key`                                *)
(*   INS  my map is my base's with `key` added, at `val`                   *)
(*   UPD  my map is my base's with the value of `key` replaced by `val`    *)
(* Every read and every update first calls reroot(), which walks to the    *)
(* BASE recursively and, on the way back, moves the table one node at a    *)
(* time, leaving the inverse edit behind.  So a READ of one version        *)
(* rewrites the nodes of others.                                           *)
(*                                                                         *)
(* One action per step of the recursion (Descend, Rotate, Return) and one  *)
(* per operation that runs on the rerooted node.  `stack` is the call      *)
(* stack of reroot(), innermost first.                                     *)
(*                                                                         *)
(* `content` is a history variable: the map a version stood for when it    *)
(* was made.  No step of the algorithm reads it.                           *)
(***************************************************************************)
EXTENDS Naturals, Sequences, FiniteSets

CONSTANTS Node,      \* the version objects that can be allocated
          Key, Val,
          Absent,    \* "no such key"; also the value field of a REM or BASE
          NoNode,    \* a null version pointer
          NoKey,     \* the key field of a BASE
          NoMap      \* the table of a node that owns none

ASSUME ConstantsAssumption ==
  /\ Absent \notin Val
  /\ NoNode \notin Node
  /\ NoMap \notin [Key -> Val \cup {Absent}]

VARIABLES mode,      \* mode[n]: kind of version node, FREE before allocation
          base,      \* base[n]: the next node towards the table
          key, val,  \* the edit of a REM, INS or UPD
          table,     \* table[n]: the hash table, at a BASE
          op,        \* the call in progress
          stack,     \* reroot() frames of that call, innermost first
          ret,       \* answer of the last completed call
          content    \* history: what each version was made to hold

nodeVars == <<mode, base, key, val, table>>
vars == <<mode, base, key, val, table, op, stack, ret, content>>

Map == [Key -> Val \cup {Absent}]

EmptyMap == [k \in Key |-> Absent]

Edits == {"REM", "INS", "UPD"}

Made(n) == mode[n] # "FREE"

\* The object `new` returns.  Objects are interchangeable until they are
\* allocated, so one fixed choice stands for all renamings of the behaviour.
Fresh(w) == ~Made(w) /\ w = CHOOSE x \in Node : ~Made(x)

Calls == [kind : {"get", "erase"}, self : Node, key : Key]
           \cup [kind : {"set"}, self : Node, key : Key, val : Val]

Idle == [kind |-> "idle"]

-----------------------------------------------------------------------------
Init == /\ mode = [n \in Node |-> "FREE"]
        /\ base = [n \in Node |-> NoNode]
        /\ key = [n \in Node |-> NoKey]
        /\ val = [n \in Node |-> Absent]
        /\ table = [n \in Node |-> NoMap]
        /\ op = Idle
        /\ stack = << >>
        /\ ret = Absent
        /\ content = [n \in Node |-> NoMap]

\* Default constructor: an empty BASE.
Create(n) == /\ op = Idle
             /\ Fresh(n)
             /\ mode' = [mode EXCEPT ![n] = "BASE"]
             /\ table' = [table EXCEPT ![n] = EmptyMap]
             /\ content' = [content EXCEPT ![n] = EmptyMap]
             /\ ret' = n
             /\ UNCHANGED <<base, key, val, op, stack>>

\* A client calls an operation on any version it still holds, old or new.
\* Every operation begins by calling reroot() on that version.  Bound: an
\* update is called only while Node has an object left to allocate.
Call(c) == /\ op = Idle
           /\ Made(c.self)
           /\ c.kind = "get" \/ \E w \in Node : ~Made(w)
           /\ op' = c
           /\ stack' = << c.self >>
           /\ UNCHANGED <<nodeVars, ret, content>>

-----------------------------------------------------------------------------
(* reroot()                                                                *)

\* Mutation: the base of a REM node is not looked at.
DescendNotFromRem == /\ stack # << >>
                     /\ LET n == Head(stack) IN
                          /\ mode[n] \in {"INS", "UPD"}
                          /\ mode[base[n]] \in Edits
                          /\ stack' = << base[n] >> \o stack
                     /\ UNCHANGED <<nodeVars, op, ret, content>>

\* base->reroot(): the recursive call, entered while the base is no BASE.
Descend == /\ stack # << >>
           /\ LET n == Head(stack) IN
                /\ mode[n] \in Edits
                /\ mode[base[n]] \in Edits
                /\ stack' = << base[n] >> \o stack
           /\ UNCHANGED <<nodeVars, op, ret, content>>

\* Mutation: an insertion is undone as if it had been an update.
InsertUndoneByUpdate(n) == CASE mode[n] = "REM" -> "INS"
                             [] mode[n] = "INS" -> "UPD"
                             [] mode[n] = "UPD" -> "UPD"

\* The edit that undoes node n's, once n's edit is applied to table t.
InverseMode(n) == CASE mode[n] = "REM" -> "INS"
                    [] mode[n] = "INS" -> "REM"
                    [] mode[n] = "UPD" -> "UPD"

InverseVal(n, t) == IF mode[n] = "INS" THEN Absent ELSE t[key[n]]

\* Mutation: the table keeps the old value of an updated key.
UpdateNotApplied(n, t) ==
  CASE mode[n] = "REM" -> [t EXCEPT ![key[n]] = Absent]
    [] mode[n] = "INS" -> [t EXCEPT ![key[n]] = val[n]]
    [] mode[n] = "UPD" -> t

\* base_map.erase / emplace / assign of n's own edit.  unordered_map::emplace
\* leaves a key that is already there alone.
Applied(n, t) == CASE mode[n] = "REM" -> [t EXCEPT ![key[n]] = Absent]
                   [] mode[n] = "INS" -> IF t[key[n]] = Absent
                                           THEN [t EXCEPT ![key[n]] = val[n]]
                                           ELSE t
                   [] mode[n] = "UPD" -> [t EXCEPT ![key[n]] = val[n]]

\* The base owns the table: take it, turn the base into the inverse of this
\* node, apply this node's edit and keep the table.
Rotate == /\ stack # << >>
          /\ LET n == Head(stack)
                 b == base[n]
             IN /\ mode[n] \in Edits
                /\ mode[b] = "BASE"
                /\ mode' = [mode EXCEPT ![n] = "BASE", ![b] = InverseMode(n)]
                /\ base' = [base EXCEPT ![n] = NoNode, ![b] = n]
                /\ key' = [key EXCEPT ![n] = NoKey, ![b] = key[n]]
                /\ val' = [val EXCEPT ![n] = Absent,
                                      ![b] = InverseVal(n, table[b])]
                /\ table' = [table EXCEPT ![n] = Applied(n, table[b]),
                                          ![b] = NoMap]
          /\ UNCHANGED <<op, stack, ret, content>>

\* The frame's node is the BASE: return to the caller.
Return == /\ stack # << >>
          /\ mode[Head(stack)] = "BASE"
          /\ stack' = Tail(stack)
          /\ UNCHANGED <<nodeVars, op, ret, content>>

-----------------------------------------------------------------------------
(* The operations, once the version they were called on is the BASE.       *)

Rerooted(kind) == op.kind = kind /\ stack = << >>

\* get(), find(), count(), get_or_default(): look the key up in the table.
Get == /\ Rerooted("get")
       /\ ret' = table[op.self][op.key]
       /\ op' = Idle
       /\ UNCHANGED <<nodeVars, stack, content>>

\* Node w takes the table, changed to t; n becomes the edit that undoes it.
HandOver(n, w, t, m, k, v) ==
  /\ mode' = [mode EXCEPT ![w] = "BASE", ![n] = m]
  /\ base' = [base EXCEPT ![n] = w]
  /\ key' = [key EXCEPT ![n] = k]
  /\ val' = [val EXCEPT ![n] = v]
  /\ table' = [table EXCEPT ![w] = t, ![n] = NoMap]

\* Mutation: set() does not tell an update from an insertion.
AlwaysInsertion(old) == "REM"

\* The edit set() leaves at self: REM of a key that was not there, UPD to the
\* old value of one that was.
SetEdit(old) == IF old = Absent THEN "REM" ELSE "UPD"

\* set(): a new version with the value stored; self becomes the edit back.
Set == /\ Rerooted("set")
       /\ LET n == op.self
              k == op.key
              old == table[n][k]
          IN \E w \in Node :
               /\ Fresh(w)
               /\ HandOver(n, w, [table[n] EXCEPT ![k] = op.val],
                           SetEdit(old), k, old)
               /\ content' = [content EXCEPT
                                ![w] = [content[n] EXCEPT ![k] = op.val]]
               /\ ret' = w
       /\ op' = Idle
       /\ UNCHANGED stack

\* erase() of a key that is not there: the same version comes back.
EraseNothing == /\ Rerooted("erase")
                /\ table[op.self][op.key] = Absent
                /\ ret' = op.self
                /\ op' = Idle
                /\ UNCHANGED <<nodeVars, stack, content>>

\* erase(): self becomes INS of the key with its old value.
Erase == /\ Rerooted("erase")
         /\ table[op.self][op.key] # Absent
         /\ LET n == op.self
                k == op.key
            IN \E w \in Node :
                 /\ Fresh(w)
                 /\ HandOver(n, w, [table[n] EXCEPT ![k] = Absent],
                             "INS", k, table[n][k])
                 /\ content' = [content EXCEPT
                                  ![w] = [content[n] EXCEPT ![k] = Absent]]
                 /\ ret' = w
         /\ op' = Idle
         /\ UNCHANGED stack

Next == \/ \E n \in Node : Create(n)
        \/ \E c \in Calls : Call(c)
        \/ Descend
        \/ Rotate
        \/ Return
        \/ Get
        \/ Set
        \/ EraseNothing
        \/ Erase

Spec == Init /\ [][Next]_vars

\* A call, once made, runs to its end: nothing preempts a single thread.
FairSpec == Spec /\ WF_vars(Descend \/ Rotate \/ Return)
                 /\ WF_vars(Get \/ Set \/ EraseNothing \/ Erase)

-----------------------------------------------------------------------------
(* Properties                                                              *)

TypeOK ==
  /\ mode \in [Node -> {"FREE", "BASE"} \cup Edits]
  /\ base \in [Node -> Node \cup {NoNode}]
  /\ key \in [Node -> Key \cup {NoKey}]
  /\ val \in [Node -> Val \cup {Absent}]
  /\ table \in [Node -> Map \cup {NoMap}]
  /\ op \in Calls \cup {Idle}
  /\ stack \in Seq(Node)
  /\ ret \in Node \cup Val \cup {Absent}
  /\ content \in [Node -> Map \cup {NoMap}]

\* The table at n, if it has one, is the map n was made to hold.
TableIsContent(n) == mode[n] = "BASE" => table[n] = content[n]

\* n's edit, applied to what its base was made to hold, gives what n was made
\* to hold, and the edit is one that can be applied there.
EditIsContent(n) ==
  mode[n] \in Edits =>
    /\ base[n] \in Node /\ key[n] \in Key
    /\ Made(base[n])
    /\ mode[n] = "INS" <=> content[base[n]][key[n]] = Absent
    /\ mode[n] = "REM" <=> val[n] = Absent
    /\ content[n] = [content[base[n]] EXCEPT ![key[n]] = val[n]]

\* Every version stays what it was made to be, however often reads and updates
\* of other versions have moved the table and inverted the edits between them
\* (reroot, set and erase rewrite nodes that other clients still hold).
VersionsPersist == \A n \in Node : TableIsContent(n) /\ EditIsContent(n)

\* Where i steps along `base` lead from n; a BASE stays where it is.
Walk(n) == LET at[i \in Nat] ==
                 IF i = 0 THEN n
                 ELSE IF mode[at[i - 1]] \in Edits THEN base[at[i - 1]]
                 ELSE at[i - 1]
           IN at

\* What the assume()s of reroot() state, at the moment it moves the table: the
\* key to remove or to update is in it.  In a release build a false assume()
\* is undefined behaviour, and here a read past the end of the table.
RerootAssumptions ==
  stack # << >> =>
    LET n == Head(stack) IN
      mode[n] \in {"REM", "UPD"} /\ mode[base[n]] = "BASE"
        => table[base[n]][key[n]] # Absent

\* Seen from outside, the versions are immutable maps: every call answers as
\* VersionedMap allows, and the steps of reroot() are invisible.
Abstract == INSTANCE VersionedMap WITH Version <- Node

ImplementsVersionedMap == Abstract!Spec

\* Every call returns: the recursion of reroot() ends.
CallsReturn == (op # Idle) ~> (op = Idle)
=============================================================================
