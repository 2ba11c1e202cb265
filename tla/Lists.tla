------------------------------- MODULE Lists --------------------------------
(***************************************************************************)
(* What it is to be a sequence, and to be a list of a set.                 *)
(***************************************************************************)
EXTENDS Sequences, SequencesExt

\* A sequence, of its own elements.
IsSeq(s) == s \in Seq(ToSet(s))

\* list has the members of S, each once.
ListsOnce(list, S) == ToSet(list) = S /\ IsInjective(list)
=============================================================================
