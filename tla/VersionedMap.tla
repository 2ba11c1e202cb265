---------------------------- MODULE VersionedMap ----------------------------
(***************************************************************************)
(* What a persistent map promises its callers, whatever happens inside:    *)
(* every version is a map that never changes once it exists, an update     *)
(* gives a NEW version and leaves the old ones as they were, and a read of *)
(* a version is a read of that map.                                        *)
(*                                                                         *)
(* `content` holds the map of every version, `op` the call a client is     *)
(* waiting for, `ret` the answer of the last call: the version an update   *)
(* returned, or the value a read saw.                                      *)
(***************************************************************************)

CONSTANTS Version,    \* the version objects a client can hold
          Key, Val,   \* keys and the values stored under them
          Absent,     \* "the key is not in the map"
          NoMap       \* content of a version that does not exist yet

VARIABLES content, op, ret

vars == <<content, op, ret>>

EmptyMap == [k \in Key |-> Absent]

Exists(v) == content[v] # NoMap

Calls == [kind : {"get", "erase"}, self : Version, key : Key]
           \cup [kind : {"set"}, self : Version, key : Key, val : Val]

Idle == [kind |-> "idle"]

Init == /\ content = [v \in Version |-> NoMap]
        /\ op = Idle
        /\ ret = Absent

\* A default-constructed, empty map: the root of a new family of versions.
Create(v) == /\ op = Idle
             /\ ~Exists(v)
             /\ content' = [content EXCEPT ![v] = EmptyMap]
             /\ ret' = v
             /\ UNCHANGED op

Call(c) == /\ op = Idle
           /\ Exists(c.self)
           /\ op' = c
           /\ UNCHANGED <<content, ret>>

Get == /\ op.kind = "get"
       /\ ret' = content[op.self][op.key]
       /\ op' = Idle
       /\ UNCHANGED content

\* A new version that differs from the one called on at one key.
Update(x) == \E w \in Version :
               /\ ~Exists(w)
               /\ content' = [content EXCEPT
                               ![w] = [content[op.self] EXCEPT ![op.key] = x]]
               /\ ret' = w
               /\ op' = Idle

Set == op.kind = "set" /\ Update(op.val)

Erase == /\ op.kind = "erase"
         /\ content[op.self][op.key] # Absent
         /\ Update(Absent)

\* Erasing an absent key makes no new version: the caller gets its own back.
EraseNothing == /\ op.kind = "erase"
                /\ content[op.self][op.key] = Absent
                /\ ret' = op.self
                /\ op' = Idle
                /\ UNCHANGED content

Next == \/ \E v \in Version : Create(v)
        \/ \E c \in Calls : Call(c)
        \/ Get \/ Set \/ Erase \/ EraseNothing

Spec == Init /\ [][Next]_vars
=============================================================================
