---------------------------- MODULE MCAssertions ----------------------------
(***************************************************************************)
(* Instances of Assertions: every library within a small set of functions, *)
(* with trees of calls and ambiguous expressions.                          *)
(***************************************************************************)
EXTENDS Assertions

CONSTANTS varT, varS, int, char, funF, funG, funH

\* funF and funG return the type they take; of funH all return the same type, so
\* that only its cheapest is kept.  Some are generic, some need assertions of
\* their own, one of them its own; one is a conversion.
Functions ==
  { Implementation(funF, int, 1, << >>, "call"),
    Implementation(funF, char, 2, << >>, "call"),
    Implementation(funF, AnyType, 2, <<funG>>, "call"),
    Implementation(funG, int, 2, << >>, "call"),
    Implementation(funG, char, 1, << >>, "call"),
    Implementation(funG, AnyType, 3, <<funG>>, "call"),
    Implementation(funH, int, 1, << >>, "call"),
    Implementation(funH, char, 1, <<funF>>, "call"),
    Implementation(funH, int, 0, << >>, "cast") }

\* Functions without assertions, of tied and of different costs.
Simple ==
  { Implementation(funF, int, 1, << >>, "call"),
    Implementation(funF, char, 2, << >>, "call"),
    Implementation(funF, AnyType, 4, << >>, "call"),
    Implementation(funG, int, 2, << >>, "call"),
    Implementation(funG, char, 1, << >>, "call"),
    Implementation(funG, char, 3, << >>, "call"),
    Implementation(funH, int, 1, << >>, "call"),
    Implementation(funH, char, 2, << >>, "call") }

Libraries == SUBSET Functions \cup SUBSET Simple

only(v, val) == [EmptyEnv.bound EXCEPT ![v] = val]

\* Assertions repeated in one call and over calls, and ambiguous expressions
\* whose alternatives bind a variable and assert functions of it.
Expressions ==
  { << Call(<< <<funF, varT>>, <<funG, varT>> >>) >>,
    << Call(<< <<funG, varT>>, <<funF, varT>>, <<funG, varS>> >>) >>,
    << Call(<< <<funF, varT>> >>), Call(<< <<funF, varS>>, <<funG, varS>> >>) >>,
    << Call(<< <<funH, varT>>, <<funF, varT>>, <<funF, varT>> >>) >>,
    << Call(<< <<funF, varT>>, <<funG, varT>>, <<funF, varT>> >>) >>,
    << Call(<< <<funF, varT>> >>),
       AmbiguousExpr({ Alt(1, only(varT, int), 1, << <<funG, varT>> >>),
                       Alt(2, only(varT, char), 1, << <<funH, varT>> >>) }) >>,
    << AmbiguousExpr({ Alt(1, EmptyEnv.bound, 1, << <<funG, varT>> >>),
                       Alt(2, only(varS, char), 2, << >>) }),
       Call(<< <<funF, varT>>, <<funF, varS>> >>) >> }
=============================================================================
