--------------------------------- MODULE GC ---------------------------------
(***************************************************************************)
(* The garbage collector (src/data/gc.h, gc.cc): objects are registered in *)
(* the newest generation; the client traces what it wants to keep and the  *)
(* rest of the newest generation is deleted when its GC_Guard goes out of  *)
(* scope, the survivors ageing into the generation before.  One mark bit   *)
(* per object and one of the collector's tell what was traced, and the     *)
(* collector's is switched instead of clearing the objects'.               *)
(*                                                                         *)
(* `kept` is a history variable: what the client may still use.  The       *)
(* client follows the two rules the program follows: it traces only while  *)
(* a young generation is in use (older objects are traced by collect()     *)
(* itself), and it points an object at another only inside the generation  *)
(* in use.                                                                 *)
(***************************************************************************)
EXTENDS Integers, FiniteSets

CONSTANTS Obj,      \* the addresses objects can be allocated at
          MaxGen    \* guards alive at one time

\* The program never has two: only operator() opens a generation, and it does
\* not call itself.  (With two, what was traced in the outer generation would
\* look untraced in the inner one, and the other way round.)
ASSUME GenAssumption == MaxGen \in {0, 1}

VARIABLES live,     \* the objects allocated and not deleted
          gen,      \* the generation an object is in
          mark,     \* the mark bit of an object
          points,   \* the objects an object points to
          gcMark,   \* GC::mark
          g,        \* GC::g, the generation in use
          roots,    \* roots[k]: what was traced while generation k was in use
          kept

gcVars == <<live, gen, mark, points, gcMark, g, roots, kept>>

-----------------------------------------------------------------------------
\* Where a path through `among` from S leads: what is in every part of `among`
\* that holds S and all that its members point to (o points to to[o]).
ReachIn(to, S, among) ==
  LET Closed(C) == /\ S \cap among \subseteq C
                   /\ \A o \in C : to[o] \cap among \subseteq C
  IN {o \in among : \A C \in SUBSET among : Closed(C) => o \in C}

Reach(S) == ReachIn(points, S, live)

GCInit == /\ live = {}
          /\ gen = [o \in Obj |-> 0]
          /\ mark = [o \in Obj |-> FALSE]
          /\ points = [o \in Obj |-> {}]
          /\ gcMark = FALSE
          /\ g = 0
          /\ roots = [k \in 1 .. MaxGen |-> {}]
          /\ kept = {}

\* Mutation: an object is registered as already marked.
NewMarked(o, ts) == /\ o \notin live
                    /\ ts \subseteq kept
                    /\ live' = live \cup {o}
                    /\ gen' = [gen EXCEPT ![o] = g]
                    /\ mark' = [mark EXCEPT ![o] = gcMark]
                    /\ points' = [points EXCEPT ![o] = ts]
                    /\ kept' = kept \cup {o}
                    /\ UNCHANGED <<gcMark, g, roots>>

\* register_object(): a new object, unmarked, in the generation in use.
New(o, ts) == /\ o \notin live
              /\ ts \subseteq kept
              /\ live' = live \cup {o}
              /\ gen' = [gen EXCEPT ![o] = g]
              /\ mark' = [mark EXCEPT ![o] = ~gcMark]
              /\ points' = [points EXCEPT ![o] = ts]
              /\ kept' = kept \cup {o}
              /\ UNCHANGED <<gcMark, g, roots>>

\* A pointer of an object is set after it was made (reroot() does).  "Young
\* generation objects cannot be kept alive by pointers from older generation":
\* the object is in the generation in use, and not traced yet.
Point(o, p) == /\ o \in kept /\ p \in kept
               /\ gen[o] = g /\ mark[o] # gcMark
               /\ points' = [points EXCEPT ![o] = @ \cup {p}]
               /\ UNCHANGED <<live, gen, mark, gcMark, g, roots, kept>>

\* Mutation: only the object itself is marked.
TracedShallow(S) == [o \in Obj |-> IF o \in S THEN gcMark ELSE mark[o]]

\* gc << o: mark what unmarked objects lead to, from o.
Traced(S) == LET found == ReachIn(points, S, {o \in live : mark[o] # gcMark})
             IN [o \in Obj |-> IF o \in found THEN gcMark ELSE mark[o]]

\* trace(o), before the guard of a young generation goes out of scope.
Trace(o) == /\ g > 0
            /\ o \in kept
            /\ mark' = Traced({o})
            /\ roots' = [roots EXCEPT ![g] = @ \cup {o}]
            /\ UNCHANGED <<live, gen, points, gcMark, g, kept>>

\* new_generation()
NewGeneration == /\ g < MaxGen
                 /\ g' = g + 1
                 /\ gcMark' = ~gcMark
                 /\ UNCHANGED <<live, gen, mark, points, roots, kept>>

\* Delete what is not in `left`, and forget what was at those addresses.
DeleteBut(left, gens, marks) ==
  /\ live' = left
  /\ gen' = [o \in Obj |-> IF o \in left THEN gens[o] ELSE 0]
  /\ mark' = [o \in Obj |-> o \in left /\ marks[o]]
  /\ points' = [o \in Obj |-> IF o \in left THEN points[o] ELSE {}]

\* ~GC_Guard, collect_young(): delete what is unmarked in the generation in
\* use, move the rest to the generation before, and use that one again.
CollectYoung ==
  /\ g > 0
  /\ DeleteBut({o \in live : gen[o] = g => mark[o] = gcMark},
               [o \in Obj |-> IF gen[o] = g THEN g - 1 ELSE gen[o]], mark)
  /\ g' = g - 1
  /\ gcMark' = ~gcMark
  /\ kept' = {o \in kept : gen[o] < g} \cup Reach(roots[g])
  /\ roots' = [roots EXCEPT ![g] = {}]

\* collect(rs): trace rs and delete what is unmarked of the oldest generation.
Collect(rs) ==
  /\ g = 0
  /\ rs \subseteq kept
  /\ DeleteBut({o \in live : Traced(rs)[o] = gcMark}, gen, Traced(rs))
  /\ gcMark' = ~gcMark
  /\ kept' = Reach(rs)
  /\ UNCHANGED <<g, roots>>

GCNext == \/ \E o \in Obj, ts \in SUBSET kept : New(o, ts)
          \/ \E o, p \in Obj : Point(o, p)
          \/ \E o \in Obj : Trace(o)
          \/ NewGeneration
          \/ CollectYoung
          \/ \E rs \in SUBSET kept : Collect(rs)

GCSpec == GCInit /\ [][GCNext]_gcVars

-----------------------------------------------------------------------------
(* Properties                                                              *)

GCTypeOK == /\ live \subseteq Obj
            /\ gen \in [Obj -> 0 .. MaxGen]
            /\ mark \in [Obj -> BOOLEAN]
            /\ points \in [Obj -> SUBSET Obj]
            /\ gcMark \in BOOLEAN
            /\ g \in 0 .. MaxGen
            /\ roots \in [1 .. MaxGen -> SUBSET Obj]
            /\ \A o \in live : gen[o] <= g

\* Nothing the client may use is deleted, and nothing it points to.
KeptAreLive == kept \subseteq live /\ \A o \in kept : points[o] \subseteq kept

\* Nothing else stays: what was not traced, nor led to, is deleted at the end
\* of its generation.
OnlyKeptAreLive == live \subseteq kept
=============================================================================
