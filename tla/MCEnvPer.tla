----------------------------- MODULE MCEnvPer -------------------------------
(***************************************************************************)
(* Instances of EnvPer: three variables, two basic types, lists and pairs, *)
(* and two assertions with two implementations each.                       *)
(***************************************************************************)
EXTENDS EnvPer

CONSTANTS T, S, R, int, char, d1, d2, x1, x2

list(t) == Named("list", << t >>)
pair(t, u) == Named("pair", << t, u >>)

\* Equalities, bindings from either side, a bound variable's second binding,
\* and pairs of bindings that no environment satisfies together.
TypeInputs == { <<T, S>>, <<T, int>>, <<R, char>>, <<T, list(S)>>,
                <<list(int), S>>, <<R, list(T)>>, <<pair(T, R), pair(R, S)>> }

\* One binding, so that environments differ in more than their assertions.
OneBinding == { <<T, int>> }
=============================================================================
