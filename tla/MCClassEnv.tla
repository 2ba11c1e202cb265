----------------------------- MODULE MCClassEnv -----------------------------
(***************************************************************************)
(* An instance of ClassEnv, in both variants.                              *)
(***************************************************************************)
EXTENDS ClassEnv

CONSTANTS T, S, R, int, char, d1, x1, x2

list(t) == Named("list", << t >>)

\* Equalities, bindings from either side, second bindings, and pairs that no
\* environment satisfies together.
Inputs == { <<T, S>>, <<S, R>>, <<R, int>>, <<list(char), T>>,
            <<T, list(S)>>, <<T, list(R)>> }

\* UnifyInputs with which three operations refute RefsAreCurrent.
StaleInputs == { <<T, list(S)>>, <<T, list(R)>> }
=============================================================================
