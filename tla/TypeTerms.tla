----------------------------- MODULE TypeTerms ------------------------------
(***************************************************************************)
(* The types of src/ast/type.h that the unifier binds: a PolyType (a type  *)
(* variable), a ConcType (a basic type) and a NamedType with parameters.   *)
(* A variable and a basic type are atoms; equality of two types is         *)
(* equality of their terms.                                                *)
(*                                                                         *)
(* Solve is the textbook unification algorithm, the reference the code's   *)
(* environments are compared with.  Its operators are recursive: a module  *)
(* that uses them is model-checked only.                                   *)
(***************************************************************************)
EXTENDS Integers, Sequences, FiniteSets

CONSTANTS Var,    \* PolyType
          Conc,   \* ConcType
          Null    \* the null pointer: "no type", "no variable"

ASSUME AtomsAssumption == Var \cap Conc = {} /\ Null \notin Var \cup Conc

Named(name, params) == [name |-> name, params |-> params]

IsVar(t) == t \in Var
IsConc(t) == t \in Conc
IsNamed(t) == t \notin Var \cup Conc \cup {Null}

SameShape(t, u) == /\ t.name = u.name
                   /\ Len(t.params) = Len(u.params)

RECURSIVE VarsOf(_)
VarsOf(t) == IF t = Null \/ IsConc(t) THEN {}
             ELSE IF IsVar(t) THEN {t}
             ELSE UNION {VarsOf(t.params[k]) : k \in 1 .. Len(t.params)}

\* t with each variable replaced by its image.
RECURSIVE Substitute(_, _)
Substitute(t, image) ==
  IF IsVar(t) THEN image[t]
  ELSE IF IsNamed(t)
         THEN Named(t.name, [k \in 1 .. Len(t.params) |->
                               Substitute(t.params[k], image)])
         ELSE t

-----------------------------------------------------------------------------
(* The reference: solving a set of equations <<t, u>> between types.       *)

NoSolution == [v \in Var |-> Null]

Pairwise(t, u) == {<<t.params[k], u.params[k]>> : k \in 1 .. Len(t.params)}

Eliminate(v, t, eqs) ==
  LET image == [w \in Var |-> IF w = v THEN t ELSE w]
  IN {<<Substitute(e[1], image), Substitute(e[2], image)>> : e \in eqs}

\* The most general solution of eqs, as the image of each variable.
RECURSIVE SolveFrom(_, _)
SolveFrom(eqs, image) ==
  IF eqs = {} THEN image
  ELSE LET e == CHOOSE x \in eqs : TRUE
           t == e[1]
           u == e[2]
           rest == eqs \ {e}
           bind(v, s) == SolveFrom(Eliminate(v, s, rest),
                                   [w \in Var |->
                                      Substitute(image[w],
                                        [x \in Var |-> IF x = v THEN s
                                                       ELSE x])])
       IN IF t = u THEN SolveFrom(rest, image)
          ELSE IF IsVar(t) THEN IF t \in VarsOf(u) THEN NoSolution
                                ELSE bind(t, u)
          ELSE IF IsVar(u) THEN IF u \in VarsOf(t) THEN NoSolution
                                ELSE bind(u, t)
          ELSE IF IsNamed(t) /\ IsNamed(u) /\ SameShape(t, u)
                 THEN SolveFrom(rest \cup Pairwise(t, u), image)
                 ELSE NoSolution

Solve(eqs) == SolveFrom(eqs, [v \in Var |-> v])

Solvable(eqs) == Solve(eqs) # NoSolution
=============================================================================
