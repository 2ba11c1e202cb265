--------------------------- MODULE ResolverProofs ---------------------------
(***************************************************************************)
(* Proofs about the collector and about Resolver, which is its client.     *)
(*                                                                         *)
(* Of GC, for every set of addresses, finite or not: the marks, whose      *)
(* meaning changes with every generation, tell exactly what the client     *)
(* traced, so that what it may still use is never deleted and all else is. *)
(*                                                                         *)
(* Of Resolver, for any number of results, any costs and any addresses:    *)
(* the program follows the rules of the collector; the search, which ends  *)
(* as soon as a result costs more than a candidate, decides as a look at   *)
(* all results would; a valid result is not collected.                     *)
(***************************************************************************)
EXTENDS Resolver, FiniteSetTheorems, SequenceTheorems, TLAPS

-----------------------------------------------------------------------------
(* The collector                                                           *)

\* Members of C point, within `among`, to members of C.
ClosedIn(to, C, among) == \A o \in C : to[o] \cap among \subseteq C

\* Older objects do not point to younger ones.
PointBack == \A o \in live : \A p \in points[o] : gen[p] <= gen[o]

\* What was traced is live, and nothing was in a generation not in use.
RootsInUse == /\ \A k \in 1 .. MaxGen : roots[k] \subseteq kept
              /\ \A k \in 1 .. MaxGen : k > g => roots[k] = {}

\* With no young generation in use, nothing is marked.  In a young one, all
\* older objects are, and of its own exactly those that what was traced leads
\* to.
MarksTellTraced ==
  /\ g = 0 => \A o \in live : mark[o] # gcMark
  /\ g = 1 => \A o \in live :
       mark[o] = gcMark <=> (gen[o] = 0 \/ o \in Reach(roots[1]))

IInv == /\ GCTypeOK /\ KeptAreLive /\ OnlyKeptAreLive
        /\ PointBack /\ RootsInUse /\ MarksTellTraced

-----------------------------------------------------------------------------
(* Lemmas about reachability.                                              *)

\* What S leads to lies in `among`, holds S and is closed.
LEMMA ReachIsClosed ==
  ASSUME NEW to, NEW S, NEW among
  PROVE  /\ ReachIn(to, S, among) \subseteq among
         /\ S \cap among \subseteq ReachIn(to, S, among)
         /\ ClosedIn(to, ReachIn(to, S, among), among)
<1>1. ReachIn(to, S, among) \subseteq among
  BY DEF ReachIn
<1>2. S \cap among \subseteq ReachIn(to, S, among)
  BY DEF ReachIn
<1>3. ClosedIn(to, ReachIn(to, S, among), among)
  <2> SUFFICES ASSUME NEW o \in ReachIn(to, S, among),
                      NEW p \in to[o] \cap among
               PROVE  p \in ReachIn(to, S, among)
    BY DEF ClosedIn
  <2> SUFFICES ASSUME NEW C \in SUBSET among, S \cap among \subseteq C,
                      \A q \in C : to[q] \cap among \subseteq C
               PROVE  p \in C
    BY DEF ReachIn
  <2>1. o \in C
    BY DEF ReachIn
  <2> QED BY <2>1
<1> QED BY <1>1, <1>2, <1>3

\* It is the least such set.
LEMMA ReachIsLeast ==
  ASSUME NEW to, NEW S, NEW among, NEW C,
         S \cap among \subseteq C, ClosedIn(to, C \cap among, among)
  PROVE  ReachIn(to, S, among) \subseteq C
<1> DEFINE D == C \cap among
<1>1. D \in SUBSET among /\ S \cap among \subseteq D
  OBVIOUS
<1>2. \A o \in D : to[o] \cap among \subseteq D
  BY DEF ClosedIn
<1>3. ReachIn(to, S, among) \subseteq D
  BY <1>1, <1>2 DEF ReachIn
<1> QED BY <1>3

\* What S leads to depends on the pointers of what S leads to, and on nothing
\* else: not on objects made since, nor on pointers set in other objects.
LEMMA ReachUnchanged ==
  ASSUME NEW to, NEW to2, NEW S, NEW among, NEW among2,
         among \subseteq among2, S \cap among2 \subseteq among,
         \A q \in ReachIn(to, S, among) : to2[q] \cap among2 = to[q] \cap among
  PROVE  ReachIn(to2, S, among2) = ReachIn(to, S, among)
<1> DEFINE A == ReachIn(to, S, among)
           B == ReachIn(to2, S, among2)
<1>1. /\ A \subseteq among /\ S \cap among \subseteq A
      /\ ClosedIn(to, A, among)
  BY ReachIsClosed
<1>2. /\ B \subseteq among2 /\ S \cap among2 \subseteq B
      /\ ClosedIn(to2, B, among2)
  BY ReachIsClosed
<1>3. B \subseteq A
  <2>1. ClosedIn(to2, A \cap among2, among2)
    BY <1>1 DEF ClosedIn
  <2> HIDE DEF A
  <2> QED BY <1>1, <2>1, ReachIsLeast
<1>4. A \subseteq A \cap B
  <2>1. ClosedIn(to, (A \cap B) \cap among, among)
    BY <1>1, <1>2 DEF ClosedIn
  <2>2. S \cap among \subseteq A \cap B
    BY <1>1, <1>2
  <2> QED BY <2>1, <2>2, ReachIsLeast
<1> QED BY <1>3, <1>4

\* Marking what o leads to through the unmarked objects U: outside the older
\* objects, that completes what S and o lead to.
LEMMA ReachMore ==
  ASSUME NEW to, NEW S, NEW o, NEW among, o \in among,
         NEW older, older \subseteq among, ClosedIn(to, older, among),
         NEW U, U = among \ (older \cup ReachIn(to, S, among))
  PROVE  \A p \in among \ older :
           p \in ReachIn(to, S \cup {o}, among)
             <=> p \in ReachIn(to, S, among) \/ p \in ReachIn(to, {o}, U)
<1> DEFINE A == ReachIn(to, S, among)
           N == ReachIn(to, {o}, U)
           B == ReachIn(to, S \cup {o}, among)
<1>1. /\ A \subseteq among /\ S \cap among \subseteq A
      /\ ClosedIn(to, A, among)
  BY ReachIsClosed
<1>2. N \subseteq U /\ {o} \cap U \subseteq N /\ ClosedIn(to, N, U)
  BY ReachIsClosed
<1>3. /\ B \subseteq among /\ (S \cup {o}) \cap among \subseteq B
      /\ ClosedIn(to, B, among)
  BY ReachIsClosed
<1>4. A \subseteq B
  <2>1. ClosedIn(to, B \cap among, among) /\ S \cap among \subseteq B
    BY <1>3 DEF ClosedIn
  <2> QED BY <2>1, ReachIsLeast
<1>5. N \subseteq B
  <2>1. ClosedIn(to, B \cap U, U) /\ {o} \cap U \subseteq B
    BY <1>3 DEF ClosedIn
  <2> HIDE DEF B
  <2> QED BY <2>1, ReachIsLeast
<1>6. B \subseteq A \cup N \cup older
  <2> DEFINE D == A \cup N \cup older
  <2>1. (S \cup {o}) \cap among \subseteq D
    BY <1>1, <1>2
  <2>2. D \subseteq among
    BY <1>1, <1>2
  <2>3. ClosedIn(to, D \cap among, among)
    <3> SUFFICES ASSUME NEW q \in D, NEW p \in to[q] \cap among
                 PROVE  p \in D
      BY DEF ClosedIn
    <3>1. CASE q \in A
      BY <3>1, <1>1 DEF ClosedIn
    <3>2. CASE q \in older
      BY <3>2 DEF ClosedIn
    <3>3. CASE q \in N
      BY <3>3, <1>2 DEF ClosedIn
    <3> QED BY <3>1, <3>2, <3>3
  <2>4. D = A \cup N \cup older
    OBVIOUS
  <2> HIDE DEF D
  <2>5. B \subseteq D
    BY <2>1, <2>3, ReachIsLeast
  <2> QED BY <2>4, <2>5
<1> QED BY <1>4, <1>5, <1>6

-----------------------------------------------------------------------------
(* Every action preserves the invariant.                                   *)

\* What an action finds of the objects that what was traced leads to.
LEMMA Reached ==
  ASSUME NEW S
  PROVE  /\ Reach(S) \subseteq live /\ S \cap live \subseteq Reach(S)
         /\ ClosedIn(points, Reach(S), live)
  BY ReachIsClosed DEF Reach

\* A step that leaves alone the pointers of what was traced, and of what that
\* leads to, does not change what it leads to.
LEMMA ReachKept ==
  ASSUME live \subseteq live', roots' = roots, roots[1] \cap live' \subseteq live,
         \A q \in Reach(roots[1]) : points'[q] \cap live' = points[q] \cap live
  PROVE  Reach(roots[1])' = Reach(roots[1])
<1> DEFINE to2 == points'
           among2 == live'
<1>1. \A q \in ReachIn(points, roots[1], live) :
        to2[q] \cap among2 = points[q] \cap live
  BY DEF Reach
<1>2. live \subseteq among2 /\ roots[1] \cap among2 \subseteq live
  OBVIOUS
<1> HIDE DEF to2, among2
<1>3. ReachIn(to2, roots[1], among2) = ReachIn(points, roots[1], live)
  BY <1>1, <1>2, ReachUnchanged
<1> QED BY <1>3 DEF to2, among2, Reach

\* There is no generation in use but the old one and a young one.
LEMMA OneGuard == MaxGen = 0 \/ MaxGen = 1
  BY GenAssumption DEF GenAssumption

LEMMA InitInv == GCInit => IInv
<1> SUFFICES ASSUME GCInit PROVE IInv
  OBVIOUS
<1>1. GCTypeOK
  <2>1. 0 \in 0 .. MaxGen
    BY OneGuard
  <2>2. mark \in [Obj -> BOOLEAN] /\ gcMark \in BOOLEAN
    BY Zenon DEF GCInit
  <2> QED BY <2>1, <2>2 DEF GCInit, GCTypeOK
<1>2. KeptAreLive /\ OnlyKeptAreLive /\ PointBack /\ MarksTellTraced
  BY DEF GCInit, KeptAreLive, OnlyKeptAreLive, PointBack, MarksTellTraced
<1>3. RootsInUse
  BY DEF GCInit, RootsInUse
<1> QED BY <1>1, <1>2, <1>3 DEF IInv

\* A new object is reached from nothing that was there.
LEMMA NewInv ==
  ASSUME IInv, NEW o \in Obj, NEW ts \in SUBSET kept, New(o, ts)
  PROVE  IInv'
<1>1. live = kept /\ live \subseteq Obj /\ g \in {0, 1}
  <2>1. live = kept /\ live \subseteq Obj
    BY DEF IInv, GCTypeOK, KeptAreLive, OnlyKeptAreLive
  <2>2. g \in {0, 1}
    BY OneGuard DEF IInv, GCTypeOK
  <2> QED BY <2>1, <2>2
<1> USE DEF New
<1>2. GCTypeOK'
  BY <1>1 DEF IInv, GCTypeOK
<1>3. KeptAreLive' /\ OnlyKeptAreLive'
  BY <1>1 DEF IInv, GCTypeOK, KeptAreLive, OnlyKeptAreLive
<1>4. PointBack'
  <2> SUFFICES ASSUME NEW q \in live', NEW p \in points'[q]
               PROVE  gen'[p] <= gen'[q]
    BY DEF PointBack
  <2>1. p \in live /\ p # o
    BY <1>1 DEF IInv, GCTypeOK, KeptAreLive
  <2>2. CASE q = o
    BY <1>1, <2>1, <2>2 DEF IInv, GCTypeOK
  <2>3. CASE q # o
    BY <1>1, <2>1, <2>3 DEF IInv, GCTypeOK, PointBack
  <2> QED BY <2>2, <2>3
<1>5. RootsInUse'
  BY DEF IInv, RootsInUse
<1>6. MarksTellTraced'
  <2>1. CASE g = 0
    BY <1>1, <2>1 DEF IInv, GCTypeOK, MarksTellTraced
  <2>2. CASE g = 1
    <3>1. roots[1] \subseteq live
      BY <1>1, <2>2, OneGuard DEF IInv, GCTypeOK, RootsInUse
    <3>2. \A q \in Reach(roots[1]) : points'[q] \cap live' = points[q] \cap live
      BY <1>1, Reached DEF IInv, GCTypeOK, KeptAreLive
    <3>3. Reach(roots[1])' = Reach(roots[1])
      <4>1. live \subseteq live' /\ roots[1] \cap live' \subseteq live
        BY <3>1
      <4> QED BY <3>2, <4>1, ReachKept
    <3>4. o \notin Reach(roots[1])
      BY Reached
    <3>5. \A q \in live : mark'[q] = mark[q] /\ gen'[q] = gen[q]
      BY <1>1 DEF IInv, GCTypeOK
    <3>6. mark'[o] # gcMark /\ gen'[o] = 1
      BY <2>2 DEF IInv, GCTypeOK
    <3> QED BY <2>2, <3>3, <3>4, <3>5, <3>6 DEF IInv, MarksTellTraced
  <2> QED BY <1>1, <2>1, <2>2
<1> QED BY <1>2, <1>3, <1>4, <1>5, <1>6 DEF IInv

\* The pointer is set in an object that nothing traced leads to.
LEMMA PointInv ==
  ASSUME IInv, NEW o \in Obj, NEW p \in Obj, Point(o, p)
  PROVE  IInv'
<1> USE DEF Point
<1>1. live = kept /\ live \subseteq Obj /\ g \in {0, 1}
  BY OneGuard DEF IInv, GCTypeOK, KeptAreLive, OnlyKeptAreLive
<1>2. GCTypeOK'
  BY <1>1 DEF IInv, GCTypeOK
<1>3. KeptAreLive' /\ OnlyKeptAreLive'
  BY <1>1 DEF IInv, GCTypeOK, KeptAreLive, OnlyKeptAreLive
<1>4. PointBack'
  BY <1>1 DEF IInv, GCTypeOK, PointBack
<1>5. RootsInUse'
  BY DEF IInv, RootsInUse
<1>6. MarksTellTraced'
  <2>1. CASE g = 0
    BY <2>1 DEF IInv, MarksTellTraced
  <2>2. CASE g = 1
    <3>1. o \notin Reach(roots[1])
      BY <1>1, <2>2 DEF IInv, MarksTellTraced
    <3>2. \A q \in Reach(roots[1]) : points'[q] \cap live' = points[q] \cap live
      BY <1>1, <3>1, Reached DEF IInv, GCTypeOK
    <3>3. Reach(roots[1])' = Reach(roots[1])
      BY <3>2, ReachKept
    <3> QED BY <2>2, <3>3 DEF IInv, MarksTellTraced
  <2> QED BY <1>1, <2>1, <2>2
<1> QED BY <1>2, <1>3, <1>4, <1>5, <1>6 DEF IInv

\* Tracing marks, of the generation in use, what the new root leads to.
LEMMA TraceInv ==
  ASSUME IInv, NEW o \in Obj, Trace(o)
  PROVE  IInv'
<1> USE DEF Trace
<1>1. live = kept /\ live \subseteq Obj /\ g = 1 /\ 1 \in 1 .. MaxGen
  <2>1. live = kept /\ live \subseteq Obj
    BY DEF IInv, GCTypeOK, KeptAreLive, OnlyKeptAreLive
  <2>2. g > 0
    OBVIOUS
  <2>3. g \in 0 .. MaxGen
    BY DEF IInv, GCTypeOK
  <2> QED BY <2>1, <2>2, <2>3, OneGuard
<1>2. GCTypeOK'
  BY <1>1 DEF IInv, GCTypeOK, Traced
<1>3. KeptAreLive' /\ OnlyKeptAreLive' /\ PointBack'
  BY DEF IInv, KeptAreLive, OnlyKeptAreLive, PointBack
<1>4. RootsInUse'
  BY <1>1 DEF IInv, GCTypeOK, RootsInUse
<1>5. MarksTellTraced'
  <2> DEFINE older == {q \in live : gen[q] = 0}
             U == {q \in live : mark[q] # gcMark}
  <2>1. ClosedIn(points, older, live)
    BY <1>1 DEF IInv, GCTypeOK, PointBack, ClosedIn
  <2>2. U = live \ (older \cup Reach(roots[1]))
    BY <1>1 DEF IInv, MarksTellTraced
  <2>3. \A q \in live \ older :
          q \in Reach(roots[1] \cup {o})
            <=> q \in Reach(roots[1]) \/ q \in ReachIn(points, {o}, U)
    <3> HIDE DEF U
    <3> QED BY <1>1, <2>1, <2>2, ReachMore DEF Reach
  <2>4. Reach(roots[1])' = Reach(roots[1] \cup {o})
    BY <1>1 DEF IInv, GCTypeOK, Reach
  <2>5. \A q \in live : mark'[q] = gcMark
                          <=> mark[q] = gcMark \/ q \in ReachIn(points, {o}, U)
    <3>1. \A q \in Obj : mark'[q] = IF q \in ReachIn(points, {o}, U)
                                      THEN gcMark ELSE mark[q]
      BY DEF Traced
    <3> QED BY <1>1, <3>1
  <2>6. ReachIn(points, {o}, U) \cap older = {}
    <3>1. ReachIn(points, {o}, U) \subseteq U
      BY ReachIsClosed
    <3> QED BY <2>2, <3>1
  <2>7. \A q \in live : gen[q] \in {0, 1}
    BY <1>1, OneGuard DEF IInv, GCTypeOK
  <2> HIDE DEF U
  <2> QED BY <1>1, <2>3, <2>4, <2>5, <2>6, <2>7 DEF IInv, MarksTellTraced
<1> QED BY <1>2, <1>3, <1>4, <1>5 DEF IInv

\* Unmarked objects become marked ones when the meaning of marks changes.
LEMMA NewGenerationInv ==
  ASSUME IInv, NewGeneration
  PROVE  IInv'
<1> USE DEF NewGeneration
<1>1. g = 0 /\ g' = 1 /\ MaxGen = 1
  BY OneGuard DEF IInv, GCTypeOK
<1>2. GCTypeOK'
  BY <1>1 DEF IInv, GCTypeOK
<1>3. KeptAreLive' /\ OnlyKeptAreLive' /\ PointBack'
  BY DEF IInv, KeptAreLive, OnlyKeptAreLive, PointBack
<1>4. RootsInUse'
  BY <1>1 DEF IInv, RootsInUse
<1>5. MarksTellTraced'
  <2>1. \A q \in live : gen[q] = 0
    BY <1>1 DEF IInv, GCTypeOK
  <2>2. \A q \in live : mark[q] \in BOOLEAN /\ mark[q] # gcMark
    BY <1>1 DEF IInv, GCTypeOK, MarksTellTraced
  <2>3. \A q \in live : mark[q] = gcMark'
    BY <2>2 DEF IInv, GCTypeOK
  <2> QED BY <1>1, <2>1, <2>3 DEF MarksTellTraced
<1> QED BY <1>2, <1>3, <1>4, <1>5 DEF IInv

\* What the collection of a young generation keeps is what is older and what
\* was traced.
LEMMA CollectYoungInv ==
  ASSUME IInv, CollectYoung
  PROVE  IInv'
<1>1. live = kept /\ live \subseteq Obj
  BY DEF IInv, GCTypeOK, KeptAreLive, OnlyKeptAreLive
<1>2. g = 1 /\ MaxGen = 1
  <2>1. g > 0 /\ g \in 0 .. MaxGen
    BY DEF IInv, GCTypeOK, CollectYoung
  <2> QED BY <2>1, OneGuard
<1>3. \A q \in live : gen[q] \in {0, 1}
  BY <1>1, <1>2 DEF IInv, GCTypeOK
<1>4. \A q \in live : mark[q] = gcMark
                        <=> (gen[q] = 0 \/ q \in Reach(roots[1]))
  BY <1>2 DEF IInv, MarksTellTraced
<1> DEFINE left == {q \in live : gen[q] = g => mark[q] = gcMark}
<1>5. left = {q \in live : gen[q] = 0} \cup Reach(roots[1])
  BY <1>2, <1>3, <1>4, Reached
<1>6. /\ live' = left /\ kept' = left
      /\ g' = 0
      /\ roots' = [roots EXCEPT ![1] = {}]
  BY <1>1, <1>2, <1>3, <1>5 DEF CollectYoung, DeleteBut
<1>7. \A q \in left : points'[q] = points[q] /\ gen'[q] = 0
  BY <1>1, <1>2, <1>3 DEF CollectYoung, DeleteBut
<1>8. \A q \in left : points[q] \subseteq left
  <2>1. \A q \in live : points[q] \subseteq live
    BY <1>1 DEF IInv, KeptAreLive
  <2>2. \A q \in live : gen[q] = 0 =>
          \A p \in points[q] : p \in live /\ gen[p] = 0
    BY <1>1, <1>3, <2>1 DEF IInv, PointBack
  <2>3. \A q \in Reach(roots[1]) : points[q] \subseteq Reach(roots[1])
    BY <2>1, Reached DEF ClosedIn
  <2> QED BY <1>5, <2>2, <2>3
<1>9. GCTypeOK'
  <2>1. mark' \in [Obj -> BOOLEAN] /\ gcMark' \in BOOLEAN
    <3>1. mark' = [q \in Obj |-> q \in left /\ mark[q]]
      BY DEF CollectYoung, DeleteBut
    <3>2. \A q \in Obj : (q \in left /\ mark[q]) \in BOOLEAN
      OBVIOUS
    <3>3. gcMark' = ~gcMark
      BY DEF CollectYoung
    <3> HIDE DEF left
    <3> QED BY Zenon, <3>1, <3>2, <3>3
  <2>2. gen' \in [Obj -> 0 .. MaxGen]
    BY <1>1, <1>2, <1>3 DEF CollectYoung, DeleteBut, IInv, GCTypeOK
  <2>3. points' \in [Obj -> SUBSET Obj] /\ roots' \in [1 .. MaxGen -> SUBSET Obj]
    BY <1>2, <1>6 DEF CollectYoung, DeleteBut, IInv, GCTypeOK
  <2> QED BY <1>1, <1>2, <1>6, <1>7, <2>1, <2>2, <2>3 DEF GCTypeOK
<1> HIDE DEF left
<1>10. KeptAreLive' /\ OnlyKeptAreLive'
  BY <1>6, <1>7, <1>8 DEF KeptAreLive, OnlyKeptAreLive
<1>11. PointBack'
  BY <1>6, <1>7, <1>8 DEF PointBack
<1>12. RootsInUse'
  BY <1>2, <1>6 DEF RootsInUse, IInv, GCTypeOK
<1>13. MarksTellTraced'
  <2>1. \A q \in left : mark[q] = gcMark
    BY <1>4, <1>5, Reached
  <2>2. \A q \in left : mark'[q] # gcMark'
    <3>1. \A q \in left : q \in Obj /\ mark'[q] = mark[q]
      BY <1>1 DEF CollectYoung, DeleteBut, left, IInv, GCTypeOK
    <3>2. gcMark' = ~gcMark /\ gcMark \in BOOLEAN
      BY DEF CollectYoung, IInv, GCTypeOK
    <3> QED BY <2>1, <3>1, <3>2
  <2> QED BY <1>6, <2>2 DEF MarksTellTraced
<1> QED BY <1>9, <1>10, <1>11, <1>12, <1>13 DEF IInv

\* What collect() keeps is what its roots lead to.
LEMMA CollectInv ==
  ASSUME IInv, NEW rs \in SUBSET kept, Collect(rs)
  PROVE  IInv'
<1>1. live = kept /\ live \subseteq Obj /\ g = 0
  BY DEF IInv, GCTypeOK, KeptAreLive, OnlyKeptAreLive, Collect
<1>2. \A q \in live : gen[q] = 0 /\ mark[q] # gcMark
  BY <1>1 DEF IInv, GCTypeOK, MarksTellTraced
<1>3. {q \in live : mark[q] # gcMark} = live
  BY <1>2
<1>4. \A q \in live : Traced(rs)[q] = gcMark <=> q \in Reach(rs)
  <2>1. Traced(rs) = [q \in Obj |-> IF q \in Reach(rs) THEN gcMark ELSE mark[q]]
    BY <1>3 DEF Traced, Reach
  <2> QED BY <1>1, <1>2, <2>1
<1>5. /\ live' = Reach(rs) /\ kept' = Reach(rs)
      /\ g' = 0 /\ roots' = roots /\ gcMark' = ~gcMark
  <2>1. {q \in live : Traced(rs)[q] = gcMark} = Reach(rs)
    BY <1>4, Reached
  <2> QED BY <1>1, <2>1 DEF Collect, DeleteBut
<1>6. \A q \in Reach(rs) :
        points'[q] = points[q] /\ gen'[q] = 0 /\ mark'[q] # gcMark'
  <2>1. \A q \in Reach(rs) : q \in Obj /\ q \in live /\ q \in live'
    BY <1>1, <1>5, Reached
  <2>2. \A q \in Reach(rs) : points'[q] = points[q] /\ gen'[q] = 0
    BY <1>2, <1>4, <2>1 DEF Collect, DeleteBut
  <2>3. \A q \in Reach(rs) : mark'[q] = Traced(rs)[q]
    <3> SUFFICES ASSUME NEW q \in Reach(rs) PROVE mark'[q] = Traced(rs)[q]
      OBVIOUS
    <3>1. q \in live /\ Traced(rs)[q] = gcMark
      BY <1>4, <2>1
    <3>2. mark'[q] = (q \in {p \in live : Traced(rs)[p] = gcMark}
                        /\ Traced(rs)[q])
      BY <2>1 DEF Collect, DeleteBut
    <3>3. Traced(rs)[q] \in BOOLEAN
      BY <3>1 DEF IInv, GCTypeOK
    <3>4. CASE Traced(rs)[q] = TRUE
      BY <3>1, <3>2, <3>4
    <3>5. CASE Traced(rs)[q] = FALSE
      BY <3>2, <3>5
    <3> QED BY <3>3, <3>4, <3>5
  <2>4. gcMark \in BOOLEAN
    BY DEF IInv, GCTypeOK
  <2> QED BY <1>4, <1>5, <2>1, <2>2, <2>3, <2>4
<1>7. \A q \in Reach(rs) : points[q] \subseteq Reach(rs)
  BY <1>1, Reached DEF IInv, KeptAreLive, ClosedIn
<1>8. GCTypeOK'
  <2>1. mark' \in [Obj -> BOOLEAN] /\ gcMark' \in BOOLEAN
    BY Zenon DEF Collect, DeleteBut
  <2>2. gen' \in [Obj -> 0 .. MaxGen] /\ points' \in [Obj -> SUBSET Obj]
    BY OneGuard DEF Collect, DeleteBut, IInv, GCTypeOK
  <2> QED BY <1>1, <1>5, <1>6, <2>1, <2>2, Reached DEF IInv, GCTypeOK
<1>9. KeptAreLive' /\ OnlyKeptAreLive'
  BY <1>5, <1>6, <1>7 DEF KeptAreLive, OnlyKeptAreLive
<1>10. PointBack'
  BY <1>5, <1>6, <1>7 DEF PointBack
<1>11. RootsInUse'
  BY <1>1, <1>5 DEF IInv, RootsInUse
<1>12. MarksTellTraced'
  BY <1>5, <1>6 DEF MarksTellTraced
<1> QED BY <1>8, <1>9, <1>10, <1>11, <1>12 DEF IInv

-----------------------------------------------------------------------------
\* One step.
LEMMA StepInv == IInv /\ [GCNext]_gcVars => IInv'
<1> SUFFICES ASSUME IInv, [GCNext]_gcVars PROVE IInv'
  OBVIOUS
<1>1. CASE \E o \in Obj, ts \in SUBSET kept : New(o, ts)
  BY <1>1, NewInv
<1>2. CASE \E o, p \in Obj : Point(o, p)
  BY <1>2, PointInv
<1>3. CASE \E o \in Obj : Trace(o)
  BY <1>3, TraceInv
<1>4. CASE NewGeneration
  BY <1>4, NewGenerationInv
<1>5. CASE CollectYoung
  BY <1>5, CollectYoungInv
<1>6. CASE \E rs \in SUBSET kept : Collect(rs)
  BY <1>6, CollectInv
<1>7. CASE UNCHANGED gcVars
  BY <1>7 DEF gcVars, IInv, GCTypeOK, KeptAreLive, OnlyKeptAreLive, PointBack,
              RootsInUse, MarksTellTraced, Reach
<1> QED BY <1>1, <1>2, <1>3, <1>4, <1>5, <1>6, <1>7 DEF GCNext

\* In every reachable state the marks tell what was traced, older objects do
\* not point to younger ones, and what the client may use is what is there.
THEOREM Invariance == GCSpec => []IInv
  BY InitInv, StepInv, PTL DEF GCSpec

\* Every variable keeps its type, and no object is younger than the generation
\* in use.
THEOREM TypeCorrect == GCSpec => []GCTypeOK
<1>1. IInv => GCTypeOK
  BY DEF IInv
<1> QED BY Invariance, <1>1, PTL

\* Neither collect_young() nor collect() deletes an object that the client may
\* still use or that such an object points to.
THEOREM NothingKeptIsDeleted == GCSpec => []KeptAreLive
<1>1. IInv => KeptAreLive
  BY DEF IInv
<1> QED BY Invariance, <1>1, PTL

\* Whatever was not traced, nor led to, is deleted with its generation.
THEOREM NothingElseStays == GCSpec => []OnlyKeptAreLive
<1>1. IInv => OnlyKeptAreLive
  BY DEF IInv
<1> QED BY Invariance, <1>1, PTL

-----------------------------------------------------------------------------
(* The resolver                                                            *)

\* Where the program is outside operator().
Outside == {"idle", "returned", "exited"}

Typed ==
  /\ build \in {"deferred", "top"}
  /\ pc \in Outside \cup {"resolving", "choosing", "chosen", "leaving"}
  /\ info \in [Obj -> Infos \cup {Invalid, None}]
  /\ results \in Seq(Obj) /\ candidates \in Seq(Obj)
  /\ i \in Nat
  /\ ret \in Obj \cup {None}
  /\ effects \in Seq({"valid", "invalid", "ambiguous", "unbound"})

\* What belongs to a call is there only during the call.
Phase ==
  /\ g = IF pc \in Outside THEN 0 ELSE 1
  /\ pc \in Outside => results = << >>
  /\ pc \in Outside \cup {"resolving"} => candidates = << >>
  /\ pc = "resolving" => i = 1
  /\ pc \in {"resolving", "choosing", "chosen"} => effects = << >>

\* The results are interpretations, and none has been collected.
ResultsLive ==
  \A j \in DOMAIN results : results[j] \in live /\ info[results[j]] \in Infos

\* The results that the search has accepted.
Seen == {j \in Eligible : j < i}

\* The search, on sorted results: the candidates stand for the accepted
\* results, which all cost the same.
SearchInv ==
  pc = "choosing" =>
    /\ build = "deferred"
    /\ \A j, k \in DOMAIN results :
         j < k => Cost(results[j]) <= Cost(results[k])
    /\ i \in 1 .. Len(results) + 1
    /\ \A c \in DOMAIN candidates :
         candidates[c] \in live /\ info[candidates[c]] \in Infos
    /\ Len(candidates) = 0 => Seen = {}
    /\ Len(candidates) = 1 =>
         \E j \in Seen : Seen = {j} /\ info[candidates[1]] = info[results[j]]
    /\ Len(candidates) > 1 => \E j, k \in Seen : j # k
    /\ Len(candidates) > 0 =>
         \A j \in Seen : Cost(results[j]) = Cost(candidates[1])

\* The interpretation chosen is the one that all results would give.
ChosenInv ==
  pc = "chosen" =>
    /\ ret \in live
    /\ \E j \in Eligible : Best = {j} /\ info[ret] = info[results[j]]

\* What is returned and not invalid was traced, and so outlives the call.
ReturnTraced ==
  /\ pc = "leaving" =>
       ret \in live /\ (info[ret] # Invalid => ret \in roots[1])
  /\ pc = "returned" => (info[ret] # Invalid => ret \in live)

RInv == /\ IInv /\ Typed /\ Phase
        /\ ResultsLive /\ SearchInv /\ ChosenInv
        /\ VerdictIsRight /\ ReturnTraced

-----------------------------------------------------------------------------
(* The verdict.                                                            *)

LEMMA CostIsInt == \A x \in Infos : x.cost \in Int
  BY CostAssumption DEF CostAssumption, Infos

LEMMA BestIsFinite ==
  ASSUME results \in Seq(Obj)
  PROVE  IsFiniteSet(Best)
<1>1. IsFiniteSet(1 .. Len(results))
  BY FS_Interval
<1>2. Best \in SUBSET (1 .. Len(results))
  BY DEF Best, Eligible
<1> QED BY <1>1, <1>2, FS_Subset

\* Two best results make the verdict ambiguous.
LEMMA VerdictAmbiguous ==
  ASSUME results \in Seq(Obj), NEW j \in Best, NEW k \in Best, j # k
  PROVE  Verdict = "ambiguous" /\ Cardinality(Best) > 1
<1>1. IsFiniteSet(Best) /\ Cardinality(Best) \in Nat
  BY BestIsFinite, FS_CardinalityType
<1>2. Cardinality(Best) # 0
  BY <1>1, FS_EmptySet
<1>3. Cardinality(Best) # 1
  BY <1>1, FS_Singleton
<1> QED BY <1>1, <1>2, <1>3 DEF Verdict, Best

\* One best result gives its own.
LEMMA VerdictUnique ==
  ASSUME NEW j, Best = {j}
  PROVE  Verdict = info[results[j]].final
<1>1. Cardinality(Best) = 1 /\ Eligible # {}
  BY FS_Singleton DEF Best
<1>2. (CHOOSE k \in Best : TRUE) = j
  OBVIOUS
<1> QED BY <1>1, <1>2 DEF Verdict

\* What is eligible, and what is best, depends on what the results say, and on
\* nothing else.
LEMMA SameBest ==
  ASSUME results' = results, build' = build,
         \A j \in DOMAIN results : info'[results[j]] = info[results[j]]
  PROVE  Eligible' = Eligible /\ Best' = Best
<1>1. Eligible' = Eligible
  BY DEF Eligible
<1>2. \A j \in Eligible : Cost(results[j])' = Cost(results[j])
  BY DEF Cost, Eligible
<1>3. Best' = Best
  BY <1>1, <1>2 DEF Best
<1> QED BY <1>1, <1>3

\* So does the verdict.
LEMMA SameVerdict ==
  ASSUME results' = results, build' = build,
         \A j \in DOMAIN results : info'[results[j]] = info[results[j]],
         Eligible = {} \/ Best # {}
  PROVE  Verdict' = Verdict
<1>1. Eligible' = Eligible
  BY SameBest
<1>2. Best' = Best
  BY SameBest
<1>3. Verdict' = Verdict
  <2>1. CASE Eligible = {}
    <3>1. Verdict = "invalid"
      BY <2>1 DEF Verdict
    <3>2. Eligible' = {}
      BY <1>1, <2>1
    <3>3. Verdict' = "invalid"
      BY <3>2 DEF Verdict
    <3> QED BY <3>1, <3>3
  <2>2. CASE Eligible # {} /\ Cardinality(Best) > 1
    BY <1>1, <1>2, <2>2 DEF Verdict
  <2>3. CASE Eligible # {} /\ ~(Cardinality(Best) > 1)
    <3> DEFINE b == CHOOSE j \in Best : TRUE
    <3>1. b \in DOMAIN results /\ b' = b
      BY <1>2, <2>3 DEF Best, Eligible
    <3>2. Verdict = info[results[b]].final
      BY <2>3 DEF Verdict
    <3>3. Eligible' # {} /\ ~(Cardinality(Best') > 1)
      BY <1>1, <1>2, <2>3
    <3>4. Verdict' = info'[results'[b']].final
      BY <3>3 DEF Verdict
    <3> HIDE DEF b
    <3> QED BY <3>1, <3>2, <3>4
  <2> QED BY <2>1, <2>2, <2>3
<1> QED BY <1>3

-----------------------------------------------------------------------------
(* The search.                                                             *)

\* When the search ends, the candidates tell how many best results there are.
LEMMA SearchDecides ==
  ASSUME RInv, pc = "choosing", Searched
  PROVE  /\ Len(candidates) = 0 => Eligible = {}
         /\ Len(candidates) = 1 =>
              \E j \in Eligible :
                Best = {j} /\ info[candidates[1]] = info[results[j]]
         /\ Len(candidates) > 1 => \E j, k \in Best : j # k
<1> USE DEF RInv
<1>1. /\ DOMAIN results = 1 .. Len(results) /\ Len(results) \in Nat
      /\ DOMAIN candidates = 1 .. Len(candidates) /\ Len(candidates) \in Nat
      /\ i \in 1 .. Len(results) + 1
      /\ Len(candidates) = 0 <=> candidates = << >>
  BY EmptySeq DEF Typed, SearchInv
<1>2. /\ \A j \in DOMAIN results : Cost(results[j]) \in Int
      /\ \A c \in DOMAIN candidates : Cost(candidates[c]) \in Int
  BY CostIsInt DEF ResultsLive, SearchInv, Cost
<1>3. CASE Len(candidates) = 0
  <2>1. i = Len(results) + 1 /\ Seen = {}
    BY <1>1, <1>3 DEF Searched, SearchInv
  <2>2. Eligible = {}
    BY <1>1, <2>1 DEF Seen, Eligible
  <2> QED BY <1>3, <2>2
<1>4. CASE Len(candidates) > 0
  <2> DEFINE c == Cost(candidates[1])
  <2>1. \A j \in Seen : Cost(results[j]) = c
    BY <1>4 DEF SearchInv
  <2>2. \A k \in Eligible \ Seen : c < Cost(results[k])
    <3> SUFFICES ASSUME NEW k \in Eligible \ Seen PROVE c < Cost(results[k])
      OBVIOUS
    <3>1. k \in DOMAIN results /\ i \in DOMAIN results /\ i <= k
      BY <1>1 DEF Seen, Eligible
    <3>2. c < Cost(results[i])
      BY <1>1, <1>4, <3>1 DEF Searched
    <3>3. Cost(results[i]) <= Cost(results[k])
      <4>1. CASE i = k
        BY <1>2, <3>1, <4>1
      <4>2. CASE i < k
        BY <3>1, <4>2 DEF SearchInv
      <4> QED BY <1>1, <3>1, <4>1, <4>2
    <3>4. 1 \in DOMAIN candidates
      BY <1>1, <1>4
    <3> QED BY <1>2, <3>1, <3>2, <3>3, <3>4
  <2>3. Seen \subseteq DOMAIN results /\ Seen \subseteq Eligible
    BY DEF Seen, Eligible
  <2>4. \E j \in Seen : TRUE
    <3>1. CASE Len(candidates) = 1
      BY <3>1 DEF SearchInv
    <3>2. CASE Len(candidates) > 1
      BY <3>2 DEF SearchInv
    <3> QED BY <1>1, <1>4, <3>1, <3>2
  <2>5. Best = Seen
    <3>1. 1 \in DOMAIN candidates /\ c \in Int
      BY <1>1, <1>2, <1>4
    <3>2. \A k \in Eligible : Cost(results[k]) \in Int
      BY <1>2 DEF Eligible
    <3> HIDE DEF c
    <3>3. Seen \subseteq Best
      <4> SUFFICES ASSUME NEW j \in Seen, NEW k \in Eligible
                   PROVE  Cost(results[j]) <= Cost(results[k])
        BY <2>3 DEF Best
      <4>1. CASE k \in Seen
        BY <2>1, <3>1, <4>1
      <4>2. CASE k \notin Seen
        BY <2>1, <2>2, <3>1, <3>2, <4>2
      <4> QED BY <4>1, <4>2
    <3>4. Best \subseteq Seen
      <4> SUFFICES ASSUME NEW k \in Best, k \notin Seen PROVE FALSE
        OBVIOUS
      <4>1. PICK j \in Seen : TRUE
        BY <2>4
      <4>2. k \in Eligible /\ Cost(results[k]) <= Cost(results[j])
        BY <2>3 DEF Best
      <4>3. c < Cost(results[k]) /\ Cost(results[j]) = c
        BY <2>1, <2>2, <4>2
      <4> QED BY <3>1, <3>2, <4>2, <4>3
    <3> QED BY <3>3, <3>4
  <2> QED BY <1>1, <1>4, <2>3, <2>5 DEF SearchInv
<1> QED BY <1>1, <1>3, <1>4

-----------------------------------------------------------------------------
(* Every action preserves the invariant.                                   *)

LEMMA InitRInv == Init => RInv
<1> SUFFICES ASSUME Init PROVE RInv
  OBVIOUS
<1>1. IInv
  BY InitInv DEF Init
<1>2. Typed
  BY DEF Init, Typed, Outside
<1>3. Phase /\ ResultsLive /\ SearchInv /\ ChosenInv /\ VerdictIsRight /\ ReturnTraced
  BY DEF Init, GCInit, Phase, Outside, ResultsLive, SearchInv, ChosenInv,
         VerdictIsRight, ReturnTraced
<1> QED BY <1>1, <1>2, <1>3 DEF RInv

\* A new object is none of the results, nor a candidate, nor what was chosen.
LEMMA NewIsNew ==
  ASSUME RInv, NEW o \in Obj, NEW ts, NEW x \in Infos \cup {Invalid, None},
         New(o, ts), info' = [info EXCEPT ![o] = x]
  PROVE  /\ IInv'
         /\ live \subseteq live' /\ o \in live'
         /\ info' \in [Obj -> Infos \cup {Invalid, None}]
         /\ info'[o] = x
         /\ \A q \in live : info'[q] = info[q]
         /\ roots' = roots /\ g' = g
<1>1. ts \in SUBSET kept
  BY DEF New
<1>2. IInv'
  BY <1>1, NewInv DEF RInv
<1>3. o \notin live /\ live' = live \cup {o} /\ roots' = roots /\ g' = g
  BY DEF New
<1>4. live \subseteq Obj
  BY DEF RInv, IInv, GCTypeOK
<1> QED BY <1>2, <1>3, <1>4 DEF RInv, Typed

\* operator() ends without an interpretation to return.
LEMMA FailInv ==
  ASSUME RInv, NEW o \in Obj, NEW effect \in {"invalid", "ambiguous", "unbound"},
         pc \in {"resolving", "choosing", "chosen"},
         Verdict = effect, Eligible = {} \/ Best # {},
         Fail(o, effect)
  PROVE  RInv'
<1> USE DEF RInv
<1>1. New(o, {}) /\ info' = [info EXCEPT ![o] = Invalid]
  BY DEF Fail
<1>2. /\ IInv'
      /\ live \subseteq live' /\ o \in live'
      /\ info' \in [Obj -> Infos \cup {Invalid, None}]
      /\ info'[o] = Invalid
      /\ \A q \in live : info'[q] = info[q]
      /\ g' = g
  BY <1>1, NewIsNew
<1>3. /\ results' = results /\ build' = build /\ i' = i
      /\ candidates' = candidates
      /\ pc' = "leaving" /\ ret' = o /\ effects' = Append(effects, effect)
  BY DEF Fail
<1>4. effects' = << effect >>
  <2>1. effects = << >>
    BY DEF Phase
  <2>2. Append(<< >>, effect) = << effect >>
    OBVIOUS
  <2> QED BY <1>3, <2>1, <2>2
<1>5. \A j \in DOMAIN results : info'[results[j]] = info[results[j]]
  BY <1>2 DEF ResultsLive
<1>6. Verdict' = effect
  BY <1>3, <1>5, SameVerdict
<1>7. Typed'
  BY <1>2, <1>3, <1>4 DEF Typed, Outside
<1>8. Phase'
  BY <1>2, <1>3 DEF Phase, Outside
<1>9. ResultsLive'
  BY <1>2, <1>3, <1>5 DEF ResultsLive
<1>10. SearchInv' /\ ChosenInv'
  BY <1>3 DEF SearchInv, ChosenInv
<1>11. VerdictIsRight'
  BY <1>2, <1>3, <1>4, <1>6 DEF VerdictIsRight
<1>12. ReturnTraced'
  BY <1>2, <1>3 DEF ReturnTraced
<1> QED BY <1>2, <1>7, <1>8, <1>9, <1>10, <1>11, <1>12

LEMMA EnterInv == ASSUME RInv, Enter PROVE RInv'
<1> USE DEF RInv
<1>1. /\ pc = "idle" /\ pc' = "resolving" /\ i' = 1 /\ effects' = << >>
      /\ UNCHANGED <<build, info, results, candidates, ret>>
      /\ live' = live
  BY DEF Enter, Goto, NewGeneration
<1>2. IInv' /\ g' = g + 1
  BY NewGenerationInv DEF Enter, NewGeneration
<1>3. Typed'
  BY <1>1 DEF Typed, Outside
<1>4. Phase'
  BY <1>1, <1>2 DEF Phase, Outside
<1>5. ResultsLive'
  BY <1>1 DEF ResultsLive
<1>6. SearchInv' /\ ChosenInv' /\ VerdictIsRight' /\ ReturnTraced'
  BY <1>1 DEF SearchInv, ChosenInv, VerdictIsRight, ReturnTraced
<1> QED BY <1>2, <1>3, <1>4, <1>5, <1>6

LEMMA MakePartInv == ASSUME RInv, NEW o \in Obj, MakePart(o) PROVE RInv'
<1> USE DEF RInv
<1>1. /\ pc = "resolving" /\ pc' = "resolving"
      /\ New(o, {}) /\ info' = [info EXCEPT ![o] = None]
      /\ UNCHANGED <<build, results, i, candidates, ret, effects>>
  BY DEF MakePart, Goto
<1>2. /\ IInv'
      /\ live \subseteq live' /\ g' = g
      /\ info' \in [Obj -> Infos \cup {Invalid, None}]
      /\ \A q \in live : info'[q] = info[q]
  BY <1>1, NewIsNew
<1>3. Typed'
  BY <1>1, <1>2 DEF Typed
<1>4. Phase'
  BY <1>1, <1>2 DEF Phase, Outside
<1>5. ResultsLive'
  BY <1>1, <1>2 DEF ResultsLive
<1>6. SearchInv' /\ ChosenInv' /\ VerdictIsRight' /\ ReturnTraced'
  BY <1>1 DEF SearchInv, ChosenInv, VerdictIsRight, ReturnTraced
<1> QED BY <1>2, <1>3, <1>4, <1>5, <1>6

LEMMA FoundInv ==
  ASSUME RInv, NEW o \in Obj, NEW x \in Infos, Found(o, x)
  PROVE  RInv'
<1> USE DEF RInv
<1>1. /\ pc = "resolving" /\ pc' = "resolving"
      /\ New(o, Parts) /\ info' = [info EXCEPT ![o] = x]
      /\ results' = Append(results, o)
      /\ UNCHANGED <<build, i, candidates, ret, effects>>
  BY DEF Found, Goto
<1>2. /\ IInv'
      /\ live \subseteq live' /\ o \in live' /\ g' = g
      /\ info' \in [Obj -> Infos \cup {Invalid, None}]
      /\ info'[o] = x
      /\ \A q \in live : info'[q] = info[q]
  <2> HIDE DEF RInv
  <2> QED BY <1>1, NewIsNew
<1>3. Typed'
  BY <1>1, <1>2 DEF Typed
<1>4. Phase'
  BY <1>1, <1>2 DEF Phase, Outside
<1>5. ResultsLive'
  <2>1. results \in Seq(Obj)
    BY DEF Typed
  <2>2. \A j \in DOMAIN results' :
          \/ j \in DOMAIN results /\ results'[j] = results[j]
          \/ results'[j] = o
    BY <1>1, <2>1
  <2> QED BY <1>2, <2>2 DEF ResultsLive
<1>6. SearchInv' /\ ChosenInv' /\ VerdictIsRight' /\ ReturnTraced'
  BY <1>1 DEF SearchInv, ChosenInv, VerdictIsRight, ReturnTraced
<1> QED BY <1>2, <1>3, <1>4, <1>5, <1>6

\* Every end without a result states the verdict.
LEMMA NoResultInv ==
  ASSUME RInv, NEW o \in Obj,
         NoResults(o) \/ NoCandidate(o) \/ Ambiguous(o) \/ TopAmbiguous(o)
  PROVE  RInv'
<1>0. /\ results \in Seq(Obj) /\ candidates \in Seq(Obj)
      /\ Len(candidates) \in Nat
      /\ candidates = << >> <=> Len(candidates) = 0
  BY EmptySeq DEF RInv, Typed
<1>1. CASE NoResults(o)
  <2>1. Eligible = {}
    BY <1>1 DEF NoResults, Eligible
  <2>2. Verdict = "invalid"
    BY <2>1 DEF Verdict
  <2> QED BY <1>1, <2>1, <2>2, FailInv DEF NoResults
<1>2. CASE NoCandidate(o)
  <2>1. Eligible = {}
    BY <1>0, <1>2, SearchDecides DEF NoCandidate
  <2>2. Verdict = "invalid"
    BY <2>1 DEF Verdict
  <2> QED BY <1>2, <2>1, <2>2, FailInv DEF NoCandidate
<1>3. CASE Ambiguous(o)
  <2>1. PICK j, k \in Best : j # k
    BY <1>3, SearchDecides DEF Ambiguous
  <2>2. Verdict = "ambiguous"
    BY <1>0, <2>1, VerdictAmbiguous
  <2> QED BY <1>3, <2>1, <2>2, FailInv DEF Ambiguous
<1>4. CASE TopAmbiguous(o)
  <2>1. Eligible = DOMAIN results
    BY <1>4 DEF TopAmbiguous, Eligible
  <2>2. Best = Cheapest
    BY <2>1 DEF Best, Cheapest
  <2>3. Best # {} /\ Cardinality(Best) > 1
    BY <1>4, <2>2, FS_EmptySet DEF TopAmbiguous
  <2>4. Verdict = "ambiguous"
    BY <2>3 DEF Verdict, Best
  <2> QED BY <1>4, <2>3, <2>4, FailInv DEF TopAmbiguous
<1> QED BY <1>1, <1>2, <1>3, <1>4

\* Sorting leaves the search before the first result.
LEMMA SortResultsInv == ASSUME RInv, SortResults PROVE RInv'
<1> USE DEF RInv
<1>1. /\ pc = "resolving" /\ pc' = "choosing"
      /\ build = "deferred" /\ results # << >>
      /\ results' \in Sorted(results)
      /\ UNCHANGED <<gcVars, build, info, i, candidates, ret, effects>>
  BY DEF SortResults, Goto
<1>2. IInv'
  BY <1>1, StepInv
<1>3. UNCHANGED <<live, g, roots>>
  BY <1>1 DEF gcVars
<1>4. DOMAIN results = 1 .. Len(results) /\ Len(results) \in Nat
  BY DEF Typed
<1>5. /\ results' \in [1 .. Len(results) -> {results[j] : j \in DOMAIN results}]
      /\ \A j, k \in 1 .. Len(results) : j < k =>
           Cost(results'[j]) <= Cost(results'[k])
  BY <1>1, <1>4 DEF Sorted
<1>6. results' \in Seq(Obj) /\ Len(results') = Len(results)
  <2>1. results' \in [1 .. Len(results) -> Obj]
    BY <1>4, <1>5 DEF Typed
  <2> QED BY <1>4, <2>1
<1>7. Typed'
  BY <1>1, <1>6 DEF Typed
<1>8. Phase'
  BY <1>1, <1>3 DEF Phase, Outside
<1>9. ResultsLive'
  BY <1>1, <1>3, <1>4, <1>5 DEF ResultsLive
<1>10. SearchInv'
  <2>1. i = 1 /\ candidates = << >> /\ i' = 1 /\ candidates' = << >>
    BY <1>1 DEF Phase
  <2>2. Seen' = {}
    BY <1>6, <2>1 DEF Seen, Eligible
  <2>3. \A j, k \in DOMAIN results' : j < k =>
           Cost(results[j])' <= Cost(results[k])'
    BY <1>1, <1>4, <1>5 DEF Cost
  <2> QED BY <1>1, <1>4, <1>6, <2>1, <2>2, <2>3 DEF SearchInv
<1>11. ChosenInv' /\ VerdictIsRight' /\ ReturnTraced'
  BY <1>1 DEF ChosenInv, VerdictIsRight, ReturnTraced
<1> QED BY <1>2, <1>7, <1>8, <1>9, <1>10, <1>11

\* A result that cannot be solved is passed over.
LEMMA RejectInv == ASSUME RInv, Reject PROVE RInv'
<1> USE DEF RInv
<1>1. /\ pc = "choosing" /\ pc' = "choosing" /\ i' = i + 1
      /\ i \in DOMAIN results /\ ~info[results[i]].solvable
      /\ UNCHANGED <<gcVars, build, info, results, candidates, ret, effects>>
  BY DEF Reject, Goto, Searched
<1>2. IInv'
  BY <1>1, StepInv
<1>3. UNCHANGED <<live, g, roots>>
  BY <1>1 DEF gcVars
<1>4. DOMAIN results = 1 .. Len(results) /\ Len(results) \in Nat /\ i \in Nat
  BY DEF Typed
<1>5. Typed'
  BY <1>1, <1>4 DEF Typed
<1>6. Phase' /\ ResultsLive'
  BY <1>1, <1>3 DEF Phase, Outside, ResultsLive
<1>7. SearchInv'
  <2>1. Eligible' = Eligible
    BY <1>1, SameBest
  <2>2. i \notin Eligible
    BY <1>1 DEF Eligible, SearchInv
  <2>3. Seen' = Seen
    BY <1>1, <1>4, <2>1, <2>2 DEF Seen, Eligible
  <2>4. \A q : Cost(q)' = Cost(q)
    BY <1>1 DEF Cost
  <2> QED BY <1>1, <1>3, <1>4, <2>3, <2>4 DEF SearchInv
<1>8. ChosenInv' /\ VerdictIsRight' /\ ReturnTraced'
  BY <1>1 DEF ChosenInv, VerdictIsRight, ReturnTraced
<1> QED BY <1>2, <1>5, <1>6, <1>7, <1>8

\* A result that can be solved becomes a candidate; it costs what the
\* candidates before it cost, for else the search would have ended.
LEMMA AcceptInv == ASSUME RInv, NEW o \in Obj, Accept(o) PROVE RInv'
<1> DEFINE r == results[i]
<1>1. /\ pc = "choosing" /\ pc' = "choosing" /\ i' = i + 1
      /\ i \in DOMAIN results /\ info[r].solvable
      /\ candidates # << >> => ~(Cost(candidates[1]) < Cost(r))
      /\ New(o, points[r]) /\ info' = [info EXCEPT ![o] = info[r]]
      /\ candidates' = Append(candidates, o)
      /\ UNCHANGED <<build, results, ret, effects>>
  BY DEF Accept, Goto, Searched
<1>2. /\ DOMAIN results = 1 .. Len(results) /\ Len(results) \in Nat
      /\ DOMAIN candidates = 1 .. Len(candidates) /\ Len(candidates) \in Nat
      /\ Len(candidates) = 0 <=> candidates = << >>
      /\ i \in Nat
  BY EmptySeq DEF RInv, Typed
<1>3. r \in live /\ info[r] \in Infos
  BY <1>1 DEF RInv, ResultsLive
<1>4. /\ IInv'
      /\ live \subseteq live' /\ o \in live' /\ g' = g
      /\ info' \in [Obj -> Infos \cup {Invalid, None}]
      /\ info'[o] = info[r]
      /\ \A q \in live : info'[q] = info[q]
  <2> HIDE DEF r
  <2> QED BY <1>1, <1>3, NewIsNew
<1>5. /\ Len(candidates') = Len(candidates) + 1
      /\ candidates' \in Seq(Obj)
      /\ candidates'[Len(candidates) + 1] = o
      /\ \A c \in DOMAIN candidates : candidates'[c] = candidates[c]
  BY <1>1 DEF RInv, Typed
<1> USE DEF RInv
<1>6. Typed'
  BY <1>1, <1>2, <1>4, <1>5 DEF Typed
<1>7. Phase' /\ ResultsLive'
  BY <1>1, <1>4 DEF Phase, Outside, ResultsLive
<1>8. Eligible' = Eligible /\ i \in Eligible
  BY <1>1, <1>4, SameBest DEF Eligible, ResultsLive
<1>9. Seen' = Seen \cup {i}
  BY <1>1, <1>2, <1>8 DEF Seen, Eligible
<1>10. /\ \A j \in DOMAIN results : Cost(results[j])' = Cost(results[j])
       /\ \A c \in DOMAIN candidates : Cost(candidates[c])' = Cost(candidates[c])
       /\ Cost(o)' = Cost(r)
  <2>1. /\ \A j \in DOMAIN results : results[j] \in live
        /\ \A c \in DOMAIN candidates : candidates[c] \in live
    BY <1>1 DEF ResultsLive, SearchInv
  <2> QED BY <1>1, <1>4, <1>5, <2>1 DEF Cost
<1>11. \A j \in Seen' : Cost(results[j])' = Cost(candidates[1])'
  <2>1. CASE Len(candidates) = 0
    BY <1>1, <1>5, <1>9, <1>10, <2>1 DEF SearchInv
  <2>2. CASE Len(candidates) > 0
    <3>1. 1 \in DOMAIN candidates
      BY <1>2, <2>2
    <3>2. \A j \in Seen : j \in DOMAIN results /\ j < i
                            /\ Cost(results[j]) = Cost(candidates[1])
      BY <1>1, <2>2 DEF SearchInv, Seen, Eligible
    <3>3. \E j \in Seen : TRUE
      BY <1>1, <1>2, <2>2 DEF SearchInv
    <3>4. Cost(candidates[1]) <= Cost(r)
      BY <1>1, <3>2, <3>3 DEF SearchInv
    <3>5. Cost(r) \in Int /\ Cost(candidates[1]) \in Int
      BY <1>1, <1>3, <3>1, CostIsInt DEF SearchInv, Cost
    <3>6. Cost(r) = Cost(candidates[1])
      BY <1>1, <1>2, <2>2, <3>4, <3>5
    <3>7. Cost(candidates[1])' = Cost(candidates[1])
      BY <1>5, <1>10, <3>1
    <3> QED BY <1>1, <1>9, <1>10, <3>2, <3>6, <3>7
  <2> QED BY <1>2, <2>1, <2>2
<1>12. SearchInv'
  <2>1. \A j, k \in DOMAIN results' :
           j < k => Cost(results[j])' <= Cost(results[k])'
    BY <1>1, <1>10 DEF SearchInv
  <2>2. i' \in 1 .. Len(results') + 1
    BY <1>1, <1>2
  <2>3. \A c \in DOMAIN candidates' :
          candidates'[c] \in live' /\ info'[candidates'[c]] \in Infos
    <3>1. \A c \in DOMAIN candidates' :
            \/ c \in DOMAIN candidates /\ candidates'[c] = candidates[c]
            \/ candidates'[c] = o
      BY <1>2, <1>5
    <3> QED BY <1>1, <1>3, <1>4, <3>1 DEF SearchInv
  <2>4. Len(candidates') = 1 =>
          \E j \in Seen' :
            Seen' = {j} /\ info'[candidates'[1]] = info'[results'[j]]
    <3>1. CASE Len(candidates) = 0
      <4>1. Seen' = {i}
        BY <1>1, <1>9, <3>1 DEF SearchInv
      <4>2. candidates'[1] = o /\ info'[r] = info[r]
        BY <1>3, <1>4, <1>5, <3>1
      <4> QED BY <1>1, <1>4, <4>1, <4>2
    <3>2. CASE Len(candidates) > 0
      <4>1. Len(candidates') # 1
        BY <1>2, <1>5, <3>2
      <4> QED BY <4>1
    <3> QED BY <1>2, <3>1, <3>2
  <2>5. Len(candidates') > 1 => \E j, k \in Seen' : j # k
    <3> SUFFICES ASSUME Len(candidates) > 0
                 PROVE  \E j, k \in Seen' : j # k
      BY <1>2, <1>5
    <3>1. \E j \in Seen : j < i
      BY <1>1, <1>2 DEF SearchInv, Seen
    <3> QED BY <1>2, <1>9, <3>1
  <2>6. build' = "deferred"
    BY <1>1 DEF SearchInv
  <2>7. ~(Len(candidates') = 0)
    BY <1>2, <1>5
  <2> QED BY <1>11, <2>1, <2>2, <2>3, <2>4, <2>5, <2>6, <2>7 DEF SearchInv
<1>13. ChosenInv' /\ VerdictIsRight' /\ ReturnTraced'
  BY <1>1 DEF ChosenInv, VerdictIsRight, ReturnTraced
<1> QED BY <1>4, <1>6, <1>7, <1>12, <1>13

\* What is chosen is the only best result.
LEMMA ChooseInv == ASSUME RInv, TopChoose \/ Choose PROVE RInv'
<1>1. /\ pc' = "chosen" /\ pc \in {"resolving", "choosing"}
      /\ UNCHANGED <<gcVars, build, info, results, i, candidates, effects>>
  BY DEF TopChoose, Choose, Goto
<1>2. /\ ret' \in live /\ ret' \in Obj
      /\ \E j \in Eligible : Best = {j} /\ info[ret'] = info[results[j]]
  <2>1. CASE TopChoose
    <3>1. Eligible = DOMAIN results
      BY <2>1 DEF TopChoose, Eligible
    <3>2. Best = Cheapest
      BY <3>1 DEF Best, Cheapest
    <3>3. PICK j \in Cheapest : Cheapest = {j} /\ ret' = results[j]
      BY <2>1 DEF TopChoose
    <3>4. j \in Eligible /\ ret' \in live
      BY <3>1, <3>3 DEF Cheapest, RInv, ResultsLive
    <3> QED BY <3>2, <3>3, <3>4 DEF RInv, IInv, GCTypeOK
  <2>2. CASE Choose
    <3>1. pc = "choosing" /\ Searched /\ Len(candidates) = 1
          /\ ret' = candidates[1]
      BY <2>2 DEF Choose, Goto
    <3>2. 1 \in DOMAIN candidates
      BY <3>1 DEF RInv, Typed
    <3>3. ret' \in live
      BY <3>1, <3>2 DEF RInv, SearchInv
    <3> QED BY <3>1, <3>3, SearchDecides DEF RInv, IInv, GCTypeOK
  <2> QED BY <2>1, <2>2
<1> USE DEF RInv
<1>3. IInv'
  BY <1>1, StepInv
<1>4. UNCHANGED <<live, g, roots>>
  BY <1>1 DEF gcVars
<1>5. Typed'
  BY <1>1, <1>2 DEF Typed
<1>6. Phase' /\ ResultsLive'
  BY <1>1, <1>4 DEF Phase, Outside, ResultsLive
<1>7. ChosenInv'
  BY <1>1, <1>2, <1>4, SameBest DEF ChosenInv
<1>8. SearchInv' /\ VerdictIsRight' /\ ReturnTraced'
  BY <1>1 DEF SearchInv, VerdictIsRight, ReturnTraced
<1> QED BY <1>3, <1>5, <1>6, <1>7, <1>8

\* An ambiguity or an unbound variable in the chosen interpretation is the
\* verdict on the expression.
LEMMA RefuseInv ==
  ASSUME RInv, NEW o \in Obj, AmbiguousExpr(o) \/ Unbound(o)
  PROVE  RInv'
<1>1. pc = "chosen"
  BY DEF AmbiguousExpr, Unbound
<1>2. PICK j \in Eligible : Best = {j} /\ info[ret] = info[results[j]]
  BY <1>1 DEF RInv, ChosenInv
<1>3. Verdict = info[ret].final /\ Best # {}
  BY <1>2, VerdictUnique
<1>4. CASE AmbiguousExpr(o)
  BY <1>1, <1>3, <1>4, FailInv DEF AmbiguousExpr
<1>5. CASE Unbound(o)
  BY <1>1, <1>3, <1>5, FailInv DEF Unbound
<1> QED BY <1>4, <1>5

\* The valid interpretation is traced before it is returned.
LEMMA ReturnCandidateInv == ASSUME RInv, ReturnCandidate PROVE RInv'
<1> USE DEF RInv
<1>1. /\ pc = "chosen" /\ pc' = "leaving"
      /\ info[ret].final = "valid" /\ Trace(ret)
      /\ UNCHANGED <<build, info, results, i, candidates, ret, effects>>
  BY DEF ReturnCandidate, Goto
<1>2. PICK j \in Eligible : Best = {j} /\ info[ret] = info[results[j]]
  BY <1>1 DEF ChosenInv
<1>3. ret \in live /\ ret \in Obj
  BY <1>1 DEF ChosenInv, IInv, GCTypeOK
<1>4. IInv'
  BY <1>1, <1>3, TraceInv
<1>5. live' = live /\ g' = g /\ g = 1 /\ ret \in roots'[1]
  <2>1. g = 1
    BY <1>1 DEF Phase, Outside
  <2>2. 1 \in 1 .. MaxGen
    BY <2>1, OneGuard DEF IInv, GCTypeOK
  <2> QED BY <1>1, <2>1, <2>2 DEF Trace, IInv, GCTypeOK
<1>6. Typed'
  BY <1>1 DEF Typed, Outside
<1>7. Phase' /\ ResultsLive'
  BY <1>1, <1>5 DEF Phase, Outside, ResultsLive
<1>8. SearchInv' /\ ChosenInv'
  BY <1>1 DEF SearchInv, ChosenInv
<1>9. VerdictIsRight'
  <2>1. Verdict' = Verdict /\ Best' = Best
    BY <1>1, <1>2, SameVerdict, SameBest
  <2>2. Verdict = "valid"
    BY <1>1, <1>2, VerdictUnique
  <2>3. effects = << >>
    BY <1>1 DEF Phase
  <2> QED BY <1>1, <1>2, <2>1, <2>2, <2>3 DEF VerdictIsRight
<1>10. ReturnTraced'
  BY <1>1, <1>3, <1>5 DEF ReturnTraced
<1> QED BY <1>4, <1>6, <1>7, <1>8, <1>9, <1>10

\* The collection at the end of operator() leaves what was traced.
LEMMA LeaveInv == ASSUME RInv, Leave PROVE RInv'
<1> USE DEF RInv
<1>1. /\ pc = "leaving" /\ pc' = "returned" /\ CollectYoung
      /\ results' = << >> /\ i' = 0 /\ candidates' = << >>
      /\ UNCHANGED <<build, info, ret, effects>>
  BY DEF Leave, Goto
<1>2. IInv'
  BY <1>1, CollectYoungInv
<1>3. g = 1 /\ g' = 0
  BY <1>1 DEF Phase, Outside, CollectYoung
<1>4. info[ret] # Invalid => ret \in live'
  <2> SUFFICES ASSUME info[ret] # Invalid PROVE ret \in live'
    OBVIOUS
  <2>1. ret \in roots[1] \cap live
    BY <1>1 DEF ReturnTraced
  <2>2. ret \in Reach(roots[1])
    BY <2>1, Reached
  <2>3. ret \in kept'
    BY <1>1, <1>3, <2>2 DEF CollectYoung
  <2> QED BY <1>2, <2>3 DEF IInv, KeptAreLive
<1>5. Typed'
  BY <1>1 DEF Typed, Outside
<1>6. Phase' /\ ResultsLive'
  BY <1>1, <1>3 DEF Phase, Outside, ResultsLive
<1>7. SearchInv' /\ ChosenInv' /\ VerdictIsRight' /\ ReturnTraced'
  BY <1>1, <1>4 DEF SearchInv, ChosenInv, VerdictIsRight, ReturnTraced
<1> QED BY <1>2, <1>5, <1>6, <1>7

LEMMA AddExprInv == ASSUME RInv, AddExpr PROVE RInv'
<1> USE DEF RInv
<1>1. /\ pc = "returned" /\ pc' = "idle"
      /\ effects' = Append(effects, "valid") \/ effects' = effects
      /\ info' = [o \in Obj |-> None] /\ ret' = None
      /\ UNCHANGED <<gcVars, build, results, i, candidates>>
  BY DEF AddExpr, Goto
<1>2. IInv'
  BY <1>1, StepInv
<1>3. g' = g
  BY <1>1 DEF gcVars
<1>4. Typed'
  <2>1. info' \in [Obj -> Infos \cup {Invalid, None}]
    BY <1>1
  <2>2. effects' \in Seq({"valid", "invalid", "ambiguous", "unbound"})
    BY <1>1 DEF Typed
  <2> QED BY <1>1, <2>1, <2>2 DEF Typed, Outside
<1>5. Phase' /\ ResultsLive'
  BY <1>1, <1>3 DEF Phase, Outside, ResultsLive
<1>6. SearchInv' /\ ChosenInv' /\ VerdictIsRight' /\ ReturnTraced'
  BY <1>1 DEF SearchInv, ChosenInv, VerdictIsRight, ReturnTraced
<1> QED BY <1>2, <1>4, <1>5, <1>6

LEMMA ExitInv == ASSUME RInv, Exit PROVE RInv'
<1> USE DEF RInv
<1>1. /\ pc = "idle" /\ pc' = "exited" /\ Collect({})
      /\ UNCHANGED <<build, info, results, i, candidates, ret, effects>>
  BY DEF Exit, Goto
<1>2. IInv'
  BY <1>1, CollectInv
<1>3. g' = g
  BY <1>1 DEF Collect
<1>4. Typed'
  BY <1>1 DEF Typed, Outside
<1>5. Phase' /\ ResultsLive'
  BY <1>1, <1>3 DEF Phase, Outside, ResultsLive
<1>6. SearchInv' /\ ChosenInv' /\ VerdictIsRight' /\ ReturnTraced'
  BY <1>1 DEF SearchInv, ChosenInv, VerdictIsRight, ReturnTraced
<1> QED BY <1>2, <1>4, <1>5, <1>6

-----------------------------------------------------------------------------
(* Theorems                                                                *)

LEMMA StepRInv == RInv /\ [Next]_vars => RInv'
<1> SUFFICES ASSUME RInv, [Next]_vars PROVE RInv'
  OBVIOUS
<1>1. CASE Enter
  BY <1>1, EnterInv
<1>2. CASE \E o \in Obj : MakePart(o)
  BY <1>2, MakePartInv
<1>3. CASE \E o \in Obj, x \in Infos : Found(o, x)
  BY <1>3, FoundInv
<1>4. CASE \E o \in Obj : NoResults(o) \/ NoCandidate(o) \/ Ambiguous(o)
                            \/ TopAmbiguous(o)
  BY <1>4, NoResultInv
<1>5. CASE SortResults
  BY <1>5, SortResultsInv
<1>6. CASE \E o \in Obj : Accept(o)
  BY <1>6, AcceptInv
<1>7. CASE Reject
  BY <1>7, RejectInv
<1>8. CASE TopChoose \/ Choose
  BY <1>8, ChooseInv
<1>9. CASE \E o \in Obj : AmbiguousExpr(o) \/ Unbound(o)
  BY <1>9, RefuseInv
<1>10. CASE ReturnCandidate
  BY <1>10, ReturnCandidateInv
<1>11. CASE Leave
  BY <1>11, LeaveInv
<1>12. CASE AddExpr
  BY <1>12, AddExprInv
<1>13. CASE Exit
  BY <1>13, ExitInv
<1>14. CASE UNCHANGED vars
  <2>1. UNCHANGED <<gcVars, build, pc, info, results, i, candidates, ret, effects>>
    BY <1>14 DEF vars, gcVars
  <2>2. IInv'
    BY <2>1, StepInv DEF RInv
  <2>3. UNCHANGED <<live, g, roots>>
    BY <2>1 DEF gcVars
  <2>4. Typed' /\ Phase' /\ ResultsLive' /\ ReturnTraced'
    BY <2>1, <2>3 DEF RInv, Typed, Phase, ResultsLive, ReturnTraced
  <2>5. SearchInv'
    BY <2>1, <2>3 DEF RInv, SearchInv, Seen, Eligible, Cost
  <2>6. ChosenInv'
    BY <2>1, <2>3 DEF RInv, ChosenInv, Best, Eligible, Cost
  <2>7. VerdictIsRight'
    BY <2>1 DEF RInv, VerdictIsRight, Verdict, Best, Eligible, Cost
  <2> QED BY <2>2, <2>4, <2>5, <2>6, <2>7 DEF RInv
<1> QED BY <1>1, <1>2, <1>3, <1>4, <1>5, <1>6, <1>7, <1>8, <1>9, <1>10, <1>11,
           <1>12, <1>13, <1>14 DEF Next

\* In every reachable state the candidates stand for the results accepted, the
\* results have not been collected, and what is returned was traced.
THEOREM ResolverInvariance == Spec => []RInv
  BY InitRInv, StepRInv, PTL DEF Spec

\* Every variable keeps its type.
THEOREM ResolverTypeCorrect == Spec => []TypeOK
<1>1. RInv => TypeOK
  BY DEF RInv, IInv, Typed, TypeOK, Outside
<1> QED BY ResolverInvariance, <1>1, PTL

\* Ending the search at the first result that costs more than a candidate
\* decides - valid, ambiguous, unbound or invalid - as looking at all results
\* would, and what is chosen is the cheapest.
THEOREM EarlyStopIsRight == Spec => []VerdictIsRight
<1>1. RInv => VerdictIsRight
  BY DEF RInv
<1> QED BY ResolverInvariance, <1>1, PTL

\* A valid interpretation that operator() returned is there, with all that it
\* leads to, when its caller prints it.
THEOREM ValidResultSurvives == Spec => []ValidResultKept
<1>1. RInv => ValidResultKept
  <2> SUFFICES ASSUME RInv, pc = "returned", info[ret] # Invalid
               PROVE  ret \in live /\ \A o \in Reach({ret}) : points[o] \subseteq live
    BY DEF ValidResultKept
  <2>1. Reach({ret}) \subseteq live
    BY Reached
  <2>2. \A o \in live : points[o] \subseteq live
    BY DEF RInv, IInv, KeptAreLive, OnlyKeptAreLive
  <2> QED BY <2>1, <2>2 DEF RInv, ReturnTraced
<1> QED BY ResolverInvariance, <1>1, PTL

\* The resolver uses the collector by its rules: every step is a step of GC, or
\* leaves it alone.
THEOREM FollowsCollectorRules == Spec => GCSpec
<1>1. Init => GCInit
  BY DEF Init
<1>2. RInv /\ [Next]_vars => [GCNext]_gcVars
  <2> SUFFICES ASSUME RInv, [Next]_vars PROVE [GCNext]_gcVars
    OBVIOUS
  <2>1. ASSUME NEW o \in Obj, NEW ts, New(o, ts) PROVE GCNext
    <3>1. ts \in SUBSET kept
      BY <2>1 DEF New
    <3> QED BY <2>1, <3>1 DEF GCNext
  <2>2. CASE Enter \/ Leave
    BY <2>2 DEF Enter, Leave, GCNext
  <2>3. CASE \E o \in Obj : MakePart(o) \/ Accept(o)
    BY <2>1, <2>3 DEF MakePart, Accept
  <2>4. CASE \E o \in Obj, x \in Infos : Found(o, x)
    BY <2>1, <2>4 DEF Found
  <2>5. CASE \E o \in Obj : \/ NoResults(o) \/ NoCandidate(o) \/ Ambiguous(o)
                            \/ TopAmbiguous(o) \/ AmbiguousExpr(o) \/ Unbound(o)
    <3>1. \E o \in Obj : New(o, {})
      BY <2>5 DEF NoResults, NoCandidate, Ambiguous, TopAmbiguous,
                  AmbiguousExpr, Unbound, Fail
    <3> QED BY <2>1, <3>1
  <2>6. CASE SortResults \/ Reject \/ TopChoose \/ Choose \/ AddExpr
    BY <2>6 DEF SortResults, Reject, TopChoose, Choose, AddExpr
  <2>7. CASE ReturnCandidate
    <3>1. ret \in Obj
      BY <2>7 DEF ReturnCandidate, Goto, RInv, ChosenInv, IInv, GCTypeOK
    <3> QED BY <2>7, <3>1 DEF ReturnCandidate, GCNext
  <2>8. CASE Exit
    BY <2>8 DEF Exit, GCNext
  <2>9. CASE UNCHANGED vars
    BY <2>9 DEF vars, gcVars
  <2> QED BY <2>2, <2>3, <2>4, <2>5, <2>6, <2>7, <2>8, <2>9 DEF Next
<1> QED BY <1>1, <1>2, ResolverInvariance, PTL DEF Spec, GCSpec
=============================================================================
