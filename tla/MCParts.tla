------------------------------ MODULE MCParts -------------------------------
(***************************************************************************)
(* One run for five parts that share no state: the conversion graph, the   *)
(* loops over combinations, the type map, the blocks' tables and the       *)
(* assertion resolver.  A behaviour is one of the part it starts with.     *)
(***************************************************************************)
EXTENDS Conversions, Combos, Blocks, MCAssertions

CONSTANT Null

VARIABLES which,
          paths, polys, leaves, given

typeVars == <<paths, polys, leaves, given>>
all == <<which, graphVars, vars, typeVars, blockVars, assnVars>>

\* Several pairs of types are the same distance apart.
Ids == {1, 2, 3, 5, 6}

Sample == INSTANCE MCTypeMap WITH Offered <- {}, Asked <- {}, nodes <- paths

Typing == INSTANCE TypeMap WITH Offered <- Sample!FlatOffered,
                                Asked <- Sample!FlatAsked, nodes <- paths

-----------------------------------------------------------------------------
Function(name, id, params, returns) ==
  [name |-> name, id |-> id, func |-> TRUE, params |-> params, returns |-> returns,
   type |-> <<params, returns>>]
Variable(name, id, type) ==
  [name |-> name, id |-> id, func |-> FALSE, params |-> << >>, returns |-> << >>,
   type |-> type]
Declarations == {Function("f", 1, <<"a">>, <<"b">>), Function("f", 2, <<"a">>, <<"b">>),
                 Function("f", 3, << >>, <<"b">>), Variable("f", 4, <<"a">>),
                 Function("g", 5, <<"a", "a">>, << >>)}

Expr(kind, name, args) == [kind |-> kind, name |-> name, args |-> args]
a == Expr("value", "a", << >>)
call(args) == Expr("call", "f", args)
Inputs == {call(<<a, call(<<call(<< >>)>>), call(<<a>>)>>), call(<<call(<< >>)>>),
           call(<<a>>), call(<< >>), a, Expr("name", "g", << >>)}

-----------------------------------------------------------------------------
PartsInit ==
  /\ which \in {"types", "graph", "loops", "driver", "assertions"}
  /\ GraphInit
  /\ IF which = "loops" THEN Init
     ELSE /\ loop = Null /\ queues = Null /\ inds = Null /\ cost = Null
          /\ iter = Null /\ out = Null /\ verdict = Null /\ done = TRUE
  /\ Typing!Init
  /\ BlocksInit /\ (which # "driver" => dir = "bu")
  /\ IF which = "assertions" THEN AssnInit
     ELSE /\ variant = Null /\ lib = Null /\ tree = Null /\ pos = Null
          /\ todo = Null /\ pc = Null /\ res = Null

Conversing == which = "graph" /\ GraphNext /\ UNCHANGED <<which, vars, typeVars,
                                                          blockVars, assnVars>>
Looping == which = "loops" /\ Next /\ UNCHANGED <<which, graphVars, typeVars, blockVars,
                                                  assnVars>>
Mapping == which = "types" /\ Typing!Next /\ UNCHANGED <<which, graphVars, vars,
                                                         blockVars, assnVars>>
Driving == which = "driver" /\ BlocksNext /\ UNCHANGED <<which, graphVars, vars,
                                                          typeVars, assnVars>>
Resolving == which = "assertions" /\ AssnNext /\ UNCHANGED <<which, graphVars, vars,
                                                                  typeVars, blockVars>>

PartsNext == Conversing \/ Looping \/ Mapping \/ Driving \/ Resolving

\* A loop over combinations runs to its end, as any call does.
PartsSpec == PartsInit /\ [][PartsNext]_all /\ WF_all(Looping)

-----------------------------------------------------------------------------
(* The properties of the instances, in the behaviours that are theirs.      *)
(* Those of the other parts hold of all behaviours, that leave them alone. *)

\* The type map gives what a map from types to values would.
FoundIsGiven == which = "types" => Typing!FoundIsGiven
\* Its iterators visit only keys that match, none twice and the exact one first;
\* all of them where no beginning of a key leads to a dead end.
IteratorsMatch == which = "types" => Typing!IteratorsMatch
=============================================================================
