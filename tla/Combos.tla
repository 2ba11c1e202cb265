------------------------------- MODULE Combos -------------------------------
(***************************************************************************)
(* The two loops over the combinations of one element of each queue        *)
(* (src/lists/): for_each_combo() with the running cost and the validator  *)
(* of eager_merge.h, which the bottom-up resolver gives the arguments of a *)
(* call to, and filter_combos() of filter.h, which the assertion resolver  *)
(* gives deferred assertions to.                                           *)
(*                                                                         *)
(* One step is one turn of the outer loop.  A combination is the positions *)
(* of its elements; what the validator or the combo iterator says of a     *)
(* (partial) one is chosen when it is asked, and remembered.               *)
(***************************************************************************)
EXTENDS Integers, Sequences, FiniteSets, SequencesExt, FiniteSetsExt

CONSTANTS MaxQueues, MaxElements,  \* at most so many queues, of so many elements
          Costs                    \* an element is known by its cost

VARIABLES loop,     \* "merge" or "filter"
          queues,   \* qs
          inds,     \* inds, counted from 1; << >> before the loop and once it is done
          cost,     \* cost_on_index_change::k
          iter,     \* what the combo iterator holds
          out,      \* the list returned
          verdict,  \* history: verdict[c], what was said of c
          done

vars == <<loop, queues, inds, cost, iter, out, verdict, done>>

Verdicts == {"ACCEPT", "REJECT_THIS", "REJECT_AFTER"}

\* verdict, once v is said of inds.
Heard(v) == [c \in DOMAIN verdict \cup {inds} |-> IF c = inds THEN v ELSE verdict[c]]

Sum(list) == FoldLeft(LAMBDA n, x : n + x, 0, list)
CostOf(c) == Sum([i \in DOMAIN c |-> queues[i][c[i]]])
Ones(n) == [i \in 1 .. n |-> 1]
HasNext(i) == inds[i] < Len(queues[i])
SomeEmpty(qs) == \E i \in DOMAIN qs : qs[i] = << >>

\* filter_combos() looks at no cost.
ElementCosts == IF loop = "merge" THEN Costs ELSE {0}

\* Both return at once if a queue is empty; on_change.init().
Init ==
  /\ loop \in {"merge", "filter"}
  /\ queues \in UNION {[1 .. n -> SeqOf(ElementCosts, MaxElements)] : n \in 1 .. MaxQueues}
  /\ done = SomeEmpty(queues)
  /\ inds = IF done THEN << >> ELSE IF loop = "merge" THEN Ones(Len(queues)) ELSE <<1>>
  /\ cost = IF done \/ loop = "filter" THEN 0 ELSE CostOf(inds)
  /\ iter = << >> /\ out = << >> /\ verdict = << >>

-----------------------------------------------------------------------------
(* for_each_combo(), for_each_cost_combo(), unsorted_eager_merge()         *)

Recost(k, i, new) == k + queues[i][new] - queues[i][inds[i]]

\* Mutant of Rolled: the queues rolled over keep their share of the cost.
RolledUnpaid(i) == Recost(cost, i, inds[i] + 1)

\* The cost once queue i has its next element and those after it the first.
Rolled(i) == Recost(FoldLeft(LAMBDA k, j : Recost(k, j, 1), cost,
                             [j \in 1 .. Len(inds) - i |-> i + j]),
                    i, inds[i] + 1)

Advanced(i) == [j \in DOMAIN inds |->
                  IF j < i THEN inds[j] ELSE IF j = i THEN inds[i] + 1 ELSE 1]
Rows == {i \in DOMAIN inds : HasNext(i)}

\* Mutant of NextIndex: queue 0 is rolled over like the others.
NextIndexAround ==
  /\ inds' = IF Rows = {} THEN Ones(Len(inds)) ELSE Advanced(Max(Rows))
  /\ cost' = CostOf(inds')
  /\ UNCHANGED done

\* From the last queue back, to the first that need not be rolled over.
NextIndex ==
  IF Rows = {}
    THEN done' = TRUE /\ inds' = << >> /\ UNCHANGED cost
    ELSE /\ inds' = Advanced(Max(Rows))
         /\ cost' = Rolled(Max(Rows))
         /\ UNCHANGED done

MergeStep ==
  /\ loop = "merge" /\ ~done
  /\ \E valid \in {"ACCEPT", "REJECT_THIS"} :
       /\ verdict' = Heard(valid)
       /\ out' = IF valid = "ACCEPT"
                   THEN Append(out, [cost |-> cost, combo |-> inds]) ELSE out
  /\ NextIndex
  /\ UNCHANGED <<loop, queues, iter>>

-----------------------------------------------------------------------------
(* filter_combos()                                                         *)

\* rows: the rows of inds that have elements left to try.  On to the next
\* element of the last of them, with an iterator that holds the rows before it.
Backtrack(rows) ==
  LET row == Max(rows)
  IN /\ inds' = IF rows = {} THEN << >>
                ELSE Append(SubSeq(inds, 1, row - 1), inds[row] + 1)
     /\ iter' = IF rows = {} THEN << >> ELSE SubSeq(iter, 1, row - 1)
     /\ done' = (rows = {})

\* Mutant of RowsLeft: whatever is rejected, its row is given up.
RowsLeftBehind(flag) == IF flag = "ACCEPT" THEN Rows ELSE Rows \ {Len(inds)}

RowsLeft(flag) == IF flag = "REJECT_AFTER" THEN Rows \ {Len(inds)} ELSE Rows

\* An accepted combination is output and backtracked; an accepted prefix is
\* extended; otherwise the next element, of this row or of an earlier one.
FilterStep ==
  /\ loop = "filter" /\ ~done
  /\ \E flag \in Verdicts :
       LET combo == Append(iter, Last(inds))
           whole == flag = "ACCEPT" /\ Len(inds) = Len(queues)
       IN /\ verdict' = Heard(flag)
          /\ out' = IF whole THEN Append(out, combo) ELSE out
          /\ IF flag = "ACCEPT" /\ ~whole
               THEN iter' = combo /\ inds' = Append(inds, 1) /\ UNCHANGED done
               ELSE Backtrack(RowsLeft(flag))
  /\ UNCHANGED <<loop, queues, cost>>

Next == MergeStep \/ FilterStep

Spec == Init /\ [][Next]_vars /\ WF_vars(Next)

-----------------------------------------------------------------------------
(* Properties                                                              *)

Whole == {c \in [DOMAIN queues -> 1 .. MaxElements] :
            \A i \in DOMAIN queues : c[i] <= Len(queues[i])}

\* Lexicographic order.
Earlier(c, d) == \E i \in DOMAIN c : /\ \A j \in 1 .. i - 1 : c[j] = d[j]
                                     /\ c[i] < d[i]

InOrder(list) == \A i, j \in DOMAIN list : i < j => Earlier(list[i], list[j])

Said(c, flag) == c \in DOMAIN verdict /\ verdict[c] = flag

\* unsorted_eager_merge() returns every valid combination, in order, each with
\* the sum of its costs, though the sum is only ever updated by differences; and
\* it has asked the validator about every combination.
CombosAreAll ==
  loop = "merge" /\ done /\ ~SomeEmpty(queues) =>
    /\ DOMAIN verdict = Whole
    /\ InOrder([i \in DOMAIN out |-> out[i].combo])
    /\ Range(out) = {[cost |-> CostOf(c), combo |-> c] :
                        c \in {d \in Whole : Said(d, "ACCEPT")}}

\* No prefix of c is rejected, or comes after one that rejects what follows.
Passes(c) ==
  \A i \in DOMAIN c :
    /\ Said(SubSeq(c, 1, i), "ACCEPT")
    /\ \A k \in 1 .. c[i] - 1 : ~Said(Append(SubSeq(c, 1, i - 1), k), "REJECT_AFTER")

\* Whole combinations and what they begin with.
Partial == {c \in UNION {[1 .. n -> 1 .. MaxElements] : n \in DOMAIN queues} :
              \A i \in DOMAIN c : c[i] <= Len(queues[i])}

\* What c begins with was accepted, and nothing before it rejects what follows.
Due(c) ==
  \A i \in DOMAIN c :
    /\ i < Len(c) => Said(SubSeq(c, 1, i), "ACCEPT")
    /\ \A k \in 1 .. c[i] - 1 : ~Said(Append(SubSeq(c, 1, i - 1), k), "REJECT_AFTER")

\* "If the iterator rejects some prefix of a combination, it will not accept any
\* combination with that prefix" (filter.h:48): the iterator is asked about the
\* first element, about the next one unless it rejected what follows, about each
\* extension of what it accepted, and about nothing else; the result is exactly
\* the whole combinations it accepted, in order, each as it then held it.
FilterIsExact ==
  loop = "filter" /\ done =>
    /\ ~SomeEmpty(queues) => DOMAIN verdict = {c \in Partial : Due(c)}
    /\ Range(out) = {c \in Whole : Passes(c)}
    /\ InOrder(out)

\* Both loops end: the index stack never comes back to where it was.
Ends == <>done
=============================================================================
