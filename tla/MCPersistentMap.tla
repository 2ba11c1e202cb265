-------------------------- MODULE MCPersistentMap ---------------------------
(* Three or four versions of a map with two keys and two values.           *)
EXTENDS PersistentMap
=============================================================================
