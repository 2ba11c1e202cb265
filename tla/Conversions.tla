---------------------------- MODULE Conversions -----------------------------
(***************************************************************************)
(* The graph of implicit conversions (src/resolver/conversion.h, .cc):     *)
(* addType() connects a new concrete type with every concrete type there,  *)
(* in both directions; a conversion costs the distance of the two types'   *)
(* numbers, unsafe downwards and safe upwards.  Each node lists the        *)
(* conversions from its type, cheapest first, and those to it.             *)
(*                                                                         *)
(* A ConversionRef is modelled by the conversion it refers to, and an      *)
(* `in` list by its set of entries: no reader depends on its order.  The   *)
(* names leave Init, Next and out to a module that is extended with this   *)
(* one.                                                                    *)
(***************************************************************************)
EXTENDS Integers, Sequences, FiniteSets, SequencesExt

CONSTANTS ConcIds,  \* the concrete types, named by their numbers
          Named     \* types that are not concrete

VARIABLES nodes,  \* the types that have a node
          edges,  \* every conversion made
          outs,   \* outs[t]: ConversionNode::out
          ins     \* ins[t]: ConversionNode::in

graphVars == <<nodes, edges, outs, ins>>

\* Mutation: the cost is the same in both directions.
FromDiffUnsigned(d) == IF d < 0 THEN [unsafe |-> 0, safe |-> -d]
                                ELSE [unsafe |-> 0, safe |-> d]

\* Cost::from_diff()
FromDiff(d) == IF d < 0 THEN [unsafe |-> -d, safe |-> 0]
                        ELSE [unsafe |-> 0, safe |-> d]

\* compare() of the two parts of a Cost that conversions have.
Cheaper(c, d) == \/ c.unsafe < d.unsafe
                 \/ c.unsafe = d.unsafe /\ c.safe < d.safe

Conversion(f, t) == [from |-> f, to |-> t, cost |-> FromDiff(t - f)]

\* ConversionListCompare
Before(c, d) == Cheaper(c.cost, d.cost)

\* Mutation: a new conversion goes to the end of the list of an older type.
AppendLast(list, c) == Append(list, c)

\* sortedInsert(): before the first entry that costs more (upper_bound).
SortedInsert(list, c) ==
  LET later == {k \in DOMAIN list : Before(c, list[k])}
      pos == IF later = {} THEN Len(list) + 1
             ELSE CHOOSE k \in later : \A j \in later : k <= j
  IN InsertAt(list, pos, c)

\* std::sort().
Sorted(cs) ==
  CHOOSE s \in [1 .. Cardinality(cs) -> cs] :
    /\ Range(s) = cs
    /\ \A j, k \in DOMAIN s : j < k => ~Before(s[k], s[j])

GraphInit == nodes = {} /\ edges = {} /\ outs = << >> /\ ins = << >>

\* The new type's own lists, sorted once it is connected to all others.
NewOut(f) == Sorted({Conversion(f, t) : t \in nodes \cap ConcIds})

\* fromNode.in.push_back( in ), and sortedInsert( fromNode.in, out ): both
\* directions are listed at the NEW type's node, none at the older ones'.
NewIn(f) == UNION {{Conversion(t, f), Conversion(f, t)} : t \in nodes \cap ConcIds}

\* addType(), "skipping if not concrete or already present".
AddType(f) ==
  IF f \notin ConcIds \/ f \in nodes
    THEN UNCHANGED graphVars
    ELSE /\ nodes' = nodes \cup {f}
         /\ edges' = edges \cup UNION {{Conversion(f, t), Conversion(t, f)} :
                                         t \in nodes}
         /\ outs' = [t \in nodes' |->
                       IF t = f THEN NewOut(f)
                                ELSE SortedInsert(outs[t], Conversion(t, f))]
         /\ ins' = [t \in nodes' |-> IF t = f THEN NewIn(f) ELSE ins[t]]

GraphNext == \E f \in ConcIds \cup Named : AddType(f)

GraphSpec == GraphInit /\ [][GraphNext]_graphVars

-----------------------------------------------------------------------------
\* find_between(): the shorter of the two lists is searched.  The set is empty
\* for nullptr.
FindBetween(f, t) ==
  IF f \notin nodes \/ t \notin nodes THEN {}
  ELSE IF Cardinality(ins[t]) < Len(outs[f]) THEN {c \in ins[t] : c.from = f}
  ELSE {c \in Range(outs[f]) : c.to = t}

\* find_from(t), which expandConversions() merges by cost, gives one conversion
\* to every other type, never a cheaper one after a dearer one.
OutIsComplete ==
  \A f \in nodes :
    /\ Range(outs[f]) = {c \in edges : c.from = f}
    /\ {c.to : c \in Range(outs[f])} = nodes \ {f}
    /\ Len(outs[f]) = Cardinality(nodes) - 1
    /\ \A j, k \in DOMAIN outs[f] : j < k => ~Before(outs[f][k], outs[f][j])

\* A conversion found between two types is the one between them, and it is safe
\* exactly towards the larger number: the foreign entries of the `in` lists are
\* never taken for it.  (convertTo() asks only for two types that differ.)
FoundIsRight ==
  \A f, t \in nodes : \A c \in FindBetween(f, t) :
    f # t => c = Conversion(f, t) /\ (c.cost.unsafe = 0 <=> f < t)

\* "Finds the conversion between two types (nullptr if not present)".
FindsPresent == \A c \in edges : FindBetween(c.from, c.to) = {c}
=============================================================================
