------------------------------ MODULE Resolver ------------------------------
(***************************************************************************)
(* The top of the resolver (src/resolver/resolver.cc, resolver.h): what    *)
(* addExpr() and Resolver::operator() do with the interpretations that     *)
(* resolve() found, inside the young generation of the collector they are  *)
(* allocated in.  resolve() and resolveAssertions() are abstracted to what *)
(* they answer; RP_ASN_TOP builds choose without resolving assertions.     *)
(***************************************************************************)
EXTENDS GC, Sequences

CONSTANTS MaxCost,     \* bound: costs are ordered, their value is immaterial
          MaxResults,  \* bound: interpretations found for one expression
          None         \* no interpretation

ASSUME CostAssumption == MaxCost \in Nat /\ MaxResults \in Nat \ {0}

VARIABLES build,    \* "deferred" (RP_ASN_DCA, _DEF, _IMM) or "top" (RP_ASN_TOP)
          pc,       \* where in addExpr() and operator() the program is
          info,     \* what the Interpretation at an address says
          results,  \* InterpretationList results
          i,        \* the loop index into results
          candidates,
          ret,      \* what operator() returns
          effects   \* the effects run for this expression, in order

vars == <<live, gen, mark, points, gcMark, g, roots, kept,
          build, pc, info, results, i, candidates, ret, effects>>

\* cost orders interpretations; solvable: resolveAssertions() succeeds on it;
\* final: whether an AmbiguousExpr is left in its expression ("ambiguous") or
\* its environment leaves type variables unbound ("unbound").
Infos == {x \in [cost : 0 .. MaxCost, solvable : BOOLEAN,
                 final : {"ambiguous", "unbound", "valid"}] :
            x.solvable \/ x.final = "valid"}

Invalid == [invalid |-> TRUE]

Cost(o) == info[o].cost

\* The address `new` returns; the rest of the model treats all alike.
Fresh(o) == o \notin live /\ o = CHOOSE x \in Obj : x \notin live

Goto(from, to) == pc = from /\ pc' = to

-----------------------------------------------------------------------------
Init == /\ GCInit
        /\ build \in {"deferred", "top"}
        /\ pc = "idle"
        /\ info = [o \in Obj |-> None]
        /\ results = << >> /\ i = 0 /\ candidates = << >>
        /\ ret = None
        /\ effects = << >>

\* operator() is entered: a young generation for all it allocates.  Bound:
\* there are addresses for the longest list of results; a call that runs out of
\* them goes no further.
Enter == /\ Goto("idle", "resolving")
         /\ Cardinality(Obj \ live) >= MaxResults + 2
         /\ NewGeneration
         /\ i' = 1
         /\ effects' = << >>
         /\ UNCHANGED <<build, info, results, candidates, ret>>

\* The parts (expressions, environment nodes) resolve() has made in this call.
Parts == {o \in live : gen[o] = g /\ info[o] = None}

\* resolve() makes a node that interpretations share (bound: one).
MakePart(o) == /\ Goto("resolving", "resolving")
               /\ Fresh(o) /\ Parts = {} /\ results = << >>
               /\ New(o, {})
               /\ info' = [info EXCEPT ![o] = None]
               /\ UNCHANGED <<build, results, i, candidates, ret, effects>>

\* resolve() finds one more interpretation, made of the part if there is one.
Found(o, x) == /\ Goto("resolving", "resolving")
               /\ Fresh(o) /\ Len(results) < MaxResults
               /\ New(o, Parts)
               /\ info' = [info EXCEPT ![o] = x]
               /\ results' = Append(results, o)
               /\ UNCHANGED <<build, i, candidates, ret, effects>>

-----------------------------------------------------------------------------
\* What is left to do after `effect`: return make_invalid(), allocated, like
\* everything else, in the young generation.
Fail(o, effect) == /\ pc' = "leaving"
                   /\ Fresh(o)
                   /\ New(o, {})
                   /\ info' = [info EXCEPT ![o] = Invalid]
                   /\ ret' = o
                   /\ effects' = Append(effects, effect)
                   /\ UNCHANGED <<build, results, i, candidates>>

\* "return invalid interpretation on empty results"
NoResults(o) == pc = "resolving" /\ results = << >> /\ Fail(o, "invalid")

\* std::sort by cost: interpretations of equal cost come in any order.
Sorted(s) == {t \in [DOMAIN s -> {s[j] : j \in DOMAIN s}] :
                \A j, k \in DOMAIN s : j < k => /\ t[j] # t[k]
                                              /\ Cost(t[j]) <= Cost(t[k])}

SortResults == /\ Goto("resolving", "choosing")
               /\ results # << >> /\ build = "deferred"
               /\ results' \in Sorted(results)
               /\ UNCHANGED <<gcVars, build, info, i, candidates, ret, effects>>

\* Mutation: the search ends at the first candidate.
StopAtFirst == i \in DOMAIN results => candidates # << >>

\* The search ends with the results, or once a cheaper candidate is found.
Searched == i \in DOMAIN results =>
              candidates # << >> /\ Cost(candidates[1]) < Cost(results[i])

\* resolveAssertions() succeeds on results[i]: a new candidate from its parts.
Accept(o) == LET r == results[i] IN
             /\ Goto("choosing", "choosing")
             /\ ~Searched /\ info[r].solvable
             /\ Fresh(o)
             /\ New(o, points[r])
             /\ info' = [info EXCEPT ![o] = info[r]]
             /\ candidates' = Append(candidates, o)
             /\ i' = i + 1
             /\ UNCHANGED <<build, results, ret, effects>>

\* resolveAssertions() fails on results[i].
Reject == /\ Goto("choosing", "choosing")
          /\ ~Searched /\ ~info[results[i]].solvable
          /\ i' = i + 1
          /\ UNCHANGED <<gcVars, build, info, results, candidates, ret, effects>>

NoCandidate(o) == /\ pc = "choosing" /\ Searched
                  /\ candidates = << >>
                  /\ Fail(o, "invalid")

\* "ambiguous if more than one min-cost interpretation"
Ambiguous(o) == /\ pc = "choosing" /\ Searched
                /\ Len(candidates) > 1
                /\ Fail(o, "ambiguous")

\* RP_ASN_TOP: sort_mins() moves the cheapest results to the front.
Cheapest == {j \in DOMAIN results :
               \A k \in DOMAIN results : Cost(results[j]) <= Cost(results[k])}

TopAmbiguous(o) == /\ pc = "resolving" /\ build = "top" /\ results # << >>
                   /\ Cardinality(Cheapest) > 1
                   /\ Fail(o, "ambiguous")

TopChoose == /\ Goto("resolving", "chosen")
             /\ build = "top" /\ results # << >>
             /\ \E j \in Cheapest : Cheapest = {j} /\ ret' = results[j]
             /\ UNCHANGED <<gcVars, build, info, results, i, candidates, effects>>

Choose == /\ Goto("choosing", "chosen")
          /\ Searched
          /\ Len(candidates) = 1
          /\ ret' = candidates[1]
          /\ UNCHANGED <<gcVars, build, info, results, i, candidates, effects>>

-----------------------------------------------------------------------------
\* ResolvedExprInvalid: an ambiguous expression is left in the candidate.
AmbiguousExpr(o) == /\ pc = "chosen"
                    /\ info[ret].final = "ambiguous"
                    /\ Fail(o, "ambiguous")

Unbound(o) == /\ pc = "chosen"
              /\ info[ret].final = "unbound"
              /\ Fail(o, "unbound")

\* Mutation: the candidate is not traced before it is returned.
ReturnUntraced == /\ Goto("chosen", "leaving")
                  /\ info[ret].final = "valid"
                  /\ UNCHANGED <<gcVars, build, info, results, i, candidates,
                                 ret, effects>>

\* trace( candidate ); return candidate;
ReturnCandidate == /\ Goto("chosen", "leaving")
                   /\ info[ret].final = "valid"
                   /\ Trace(ret)
                   /\ UNCHANGED <<build, info, results, i, candidates, ret, effects>>

\* operator() is left: its locals are gone, and the destructor of its GC_Guard
\* collects.
Leave == /\ Goto("leaving", "returned")
         /\ CollectYoung
         /\ results' = << >> /\ i' = 0 /\ candidates' = << >>
         /\ UNCHANGED <<build, info, ret, effects>>

\* addExpr(): `if ( i->is_valid() ) on_valid( expr, i )`.  What a deleted
\* interpretation says is undefined: either answer can be read.  Afterwards no
\* interpretation is looked at again.
AddExpr == /\ Goto("returned", "idle")
           /\ \E valid \in IF ret \in live THEN {info[ret] # Invalid} ELSE BOOLEAN :
                effects' = IF valid THEN Append(effects, "valid") ELSE effects
           /\ info' = [o \in Obj |-> None]
           /\ ret' = None
           /\ UNCHANGED <<gcVars, build, results, i, candidates>>

\* The end of main(): collect() with no roots.
Exit == /\ Goto("idle", "exited")
        /\ Collect({})
        /\ UNCHANGED <<build, info, results, i, candidates, ret, effects>>

Next == \/ Enter
        \/ \E o \in Obj : MakePart(o)
        \/ \E o \in Obj, x \in Infos : Found(o, x)
        \/ \E o \in Obj : NoResults(o)
        \/ SortResults
        \/ \E o \in Obj : Accept(o)
        \/ Reject
        \/ \E o \in Obj : NoCandidate(o) \/ Ambiguous(o)
        \/ \E o \in Obj : TopAmbiguous(o)
        \/ TopChoose
        \/ Choose
        \/ \E o \in Obj : AmbiguousExpr(o) \/ Unbound(o)
        \/ ReturnCandidate
        \/ Leave
        \/ AddExpr
        \/ Exit

Spec == Init /\ [][Next]_vars

-----------------------------------------------------------------------------
(* Properties                                                              *)

TypeOK == /\ GCTypeOK
          /\ build \in {"deferred", "top"}
          /\ pc \in {"idle", "resolving", "choosing", "chosen", "leaving",
                     "returned", "exited"}
          /\ info \in [Obj -> Infos \cup {Invalid, None}]
          /\ results \in Seq(Obj) /\ candidates \in Seq(Obj)
          /\ i \in Nat
          /\ ret \in Obj \cup {None}
          /\ effects \in Seq({"valid", "invalid", "ambiguous", "unbound"})

\* The results that may be chosen, and the cheapest of them, whatever order
\* they were found in.
Eligible == {j \in DOMAIN results :
               build = "deferred" => info[results[j]].solvable}

Best == {j \in Eligible : \A k \in Eligible : Cost(results[j]) <= Cost(results[k])}

Verdict == IF Eligible = {} THEN "invalid"
           ELSE IF Cardinality(Best) > 1 THEN "ambiguous"
           ELSE info[results[CHOOSE j \in Best : TRUE]].final

\* "Resolve best interpretation of input expression.  Will return invalid
\* interpretation and run appropriate effect if resolution fails": the search,
\* which stops early, gives the answer a look at all results would give.
VerdictIsRight ==
  pc = "leaving" =>
    IF Verdict = "valid"
      THEN effects = << >> /\ \E j \in Best : info[ret] = info[results[j]]
      ELSE effects = << Verdict >> /\ info[ret] = Invalid

\* A valid interpretation that operator() returned outlives the generation it
\* was made in, with all it points to: on_valid() prints it after the collection.
ValidResultKept ==
  pc = "returned" /\ info[ret] # Invalid =>
    ret \in live /\ \A o \in Reach({ret}) : points[o] \subseteq live

\* The interpretation operator() returns, valid or "invalid interpretation", is
\* there for its caller to look at.
ReturnedIsLive == pc = "returned" => ret \in live
=============================================================================
