# A TLA+ model of the resolver prototype

`src/src` resolves overloaded Cforall expressions: given declarations and an
expression it finds the cheapest interpretation, binding the type variables of
polymorphic functions and finding implementations for their assertions. It is
one C++ program, with no threads; what makes it hard is that its data
structures look immutable and are not. Environments are copied by the
thousand and share structure that reads rewrite; interpretations live in
generations of a collector that deletes what nobody traced; the same search is
written with several orders and shortcuts, chosen by build flags. These models
say what each part promises, and check and prove that the code keeps it.

## The system

The build chooses the variants: `DIR` = `bu`, `co`, `td` (order of the search),
`ASN` = `dca`, `def`, `imm`, `top` (when assertions are resolved), `ENV` =
`per`, `inc`, `bas` (environment). The release build has `-DNDEBUG`, in which
`assume()` (`src/src/data/debug.h:12-17`) is a promise to the compiler: a false
one is undefined behaviour.

| Component | State | Operations | Used by | What is hard | What makes it correct |
|---|---|---|---|---|---|
| persistent map (`data/persistent_map.h`) | nodes: one TABLE per family, edits (INS, UPD, REM) that lead to it | `set`, `erase`, `find`, `get`, `count`, `reroot` | `env-per`: bindings and assertions | a read of an old version moves the table and reverses every edit on the way; tables are moved out of versions still in use | each version is for ever the map it was made; `reroot` ends; its `assume`s hold |
| persistent disjoint set (`data/persistent_disjoint_set.h`) | the same with parent, circular class list and byte-wide height | `add`, `merge`, `find`, `find_or_default`, `find_class`, `reroot` | `env-per`: classes | undoing a merge must split the circular list and lower the height again | forests survive rerooting; the list of a class is the class |
| environment (`resolver/env*.h`) | classes, their bindings, assertions | `insertVar`, `bindType`, `bindVar`, `bindAssertion`, `mergeBound`, `merge` | unifier, assertion resolver, search | merging siblings through their common ancestor, with short cuts on what did not change | the most general environment for the equations put in; failure only when there is none; no cycles |
| unifier (`resolver/type_unifier.h`) | the environment it fills | one rule per pair of kinds of type | search, assertion resolver | the answer is by reference, and a failure can be taken for a type | as above, and unified types become equal |
| collector (`data/gc.*`) | generations, mark bits | `new`, `trace`, `new_generation`, `collect_young`, `collect` | every allocation | a mark bit whose meaning flips; survivors change generation | what was traced lives, the rest of the generation does not |
| resolver, top level (`resolver/resolver.*`) | results, candidates, effects | `operator()`, `addExpr`, `addType` | driver | stops early by cost; the result must outlive the generation | verdict independent of the early stop; the result is readable |
| conversion graph (`resolver/conversion.*`) | nodes with `out` and `in` lists | `addType`, `find_from`, `find_to`, `find_between` | search, assertion resolver | lists kept sorted from both ends | complete, sorted, found |
| assertion resolver (`resolver/resolve_assertions.h`) | open, deferred and cached assertions | one pass per depth | top level or search | deferral, recursion limit, a cache whose keys change with the environment | all bound, consistently, by the cheapest choice |
| search (`resolver/resolver-bu.cc`, `-td.cc`, `arg_pack.h`) | queues of partial calls, cache by expression and type | `resolve`, `resolveWithType` | top level | an answer found under one environment used under another; tuples spread over parameters | well-typed answers, the cheapest among them, in every variant |
| expansion (`resolver/expand_conversions.h`) | map by type | `expandConversions`, `convertTo` | search | replacement in place by a cheaper interpretation, merging of equals | cheapest per type, in any order |
| lists (`lists/*.h`), interpretations (`resolver/interpretation.h`, `cost.h`) | index stacks, a running cost | `filter_combos`, `for_each_combo`, `sort_mins`, `merge_ambiguous` | search, assertion resolver | backtracking, roll-over of several queues at once | the product, each combination once, at its cost |
| type map (`resolver/type_map.h`, `canonical_type_map.h`) | a trie of the atoms of types | `insert`, `get`, `get_poly_maps`, `get_matching`, `get_canon` | search, expansion, parser | iterators that backtrack over the trie | a map from types; the iterators list what matches |
| scopes, function table, parser (`data/scoped_map.h`, `resolver/func_table.h`, `driver/*`) | nested levels, counts of declarations | `insert`, `findAll`, `beginScope`, `endScope` | driver, search, collector | three sets of scopes that must end together; empty scopes | visible, traced and counted is what open blocks declare |

Interaction is by calls and by sharing: environments are values that share
versions; interpretations share environments and sub-interpretations; the
collector is global and sees all of them; the conversion graph and the function
table are global and only grow while an expression is not being resolved.
Everything a call does is done when it returns. The one place where a call is
taken apart is `reroot()` (and the climbing of `find()` and `find_class()`),
modelled step by step because its intermediate states, and the `assume`s in
them, are what can go wrong.

The hazards are listed in `PROJECT.json`, each at its line, with the properties
that cover it.

## The modules

| Module | Models | Notes |
|---|---|---|
| `VersionedMap` | what a persistent map promises | a set of versions, each an immutable function; operations add one |
| `PersistentMap` | `persistent_map.h` | node = `node[n]`; `reroot()` has its own stack and program counter; implements `VersionedMap` |
| `PersistentMapProofs` | theorems | |
| `VersionedPartition` | what a persistent disjoint set promises | versions are partitions |
| `PersistentDisjointSet` | `persistent_disjoint_set.h` | heights modulo 256; starts from a given closed forest; implements `VersionedPartition` |
| `PersistentDisjointSetProofs` | theorems | contents; then roots, class lists, heights, refinement |
| `Lists`, `DataFacts` | what it is to list a set; facts about naturals, sums, sets, sequences and recursive functions | what the other proofs share |
| `TypeTerms` | types as terms, equations, unification by definition | the reference the environments are compared with |
| `EnvPer` | `env-per.*`, `type_unifier.h`, `unify.h`, `occurs_in.h` | versions are contents with their history of edits |
| `ClassEnv` | `env-inc.*`, `env-bas.*`, and the unifier over them | a pool of generations; `variant` chooses the build |
| `GC` | `gc.*` | `kept`, a history variable, is what the client may still use |
| `Resolver` | `resolver.cc`, `resolver.h` | extends `GC`: operator() allocates, traces and collects |
| `ResolverProofs` | theorems | about the collector, then about the resolver as its client |
| `Conversions` | `conversion.*`, `addType()` | every order of adding types |
| `ConversionsProofs` | theorems | |
| `Interpretations` | `cost.h`, `interpretation.h`, `expand_conversions.h`, `unify.h`, `arg_pack.h` | operators only |
| `BottomUp`, `TopDown` | `resolver-bu.cc` in both its builds, `resolver-td.cc` with its caches | operators over the declarations in scope |
| `Directions` | the composition: declarations, a question, the answers of each build, their expansion one by one | `Typings` is the reference: all ways to type an expression |
| `Assertions` | `resolve_assertions.h` and the visitor it is | a pass per depth, a step per assertion; the resolver of an alternative runs within a step |
| `AssertionsProofs` | theorems | |
| `TypeMap` | `type_map.h`, `canonical_type_map.h` | a node is its path; `given` is what a map would hold |
| `Combos` | `combos.h`, `eager_merge.h`, `filter.h` | a step per turn of the loop |
| `CombosProofs` | theorems | |
| `Blocks` | `parser.cc` (without tokens), `scoped_map.h`, `func_table.h`, `metrics.h` | a step per line read |
| `BlocksProofs` | theorems | |
| `MC...` | constants for TLC | `MCParts` runs five parts that share no state, one per behaviour: it extends `Conversions`, `Combos`, `Assertions` and `Blocks`, whose theorems are so about the very definitions it checks, and has an instance of `TypeMap` |

How state and actions correspond to the code is said at the head of each module
and, line by line, in `PROJECT.json` under `map`. What a reader might stumble on:

- **Maps and sets.** A node of `PersistentMap` is an address; a version is
  held as long as some client holds it, so any version can be read at any
  time. Between the steps of a `reroot()` no other call starts: the program
  has one thread. `PersistentDisjointSet` starts from a forest that the
  configuration gives (the versions the forest was built from are garbage, as
  in the program when nobody holds them): merges of large classes are so
  reached within few nodes.
- **Environments.** `EnvPer` models a version by its content and its history of
  edits, which is what the two modules below it establish: content never
  changes, and edits lead from a version to its base. `mergeAllClasses()` and
  its siblings walk the edits between two versions; the histories say which
  they are. `PathsFit` states the `assume`s made on that walk: successive edits of
  a key fit together. `lost` marks an environment on which the code need not
  return (it follows a cycle of bindings, or merges a class with itself); to the
  model the operation has failed, and `FailuresAreReal` says that this only
  happens when no environment exists. `says`, a history variable, is what an
  environment was made to satisfy.
- **Class environments.** `ClassEnv` hands out class references, a generation and
  an index, as the code does, so that one kept too long points to what has
  become of the place. Clients never change an `Env` that another was copied
  from (`Unshared`). The assertions of
  an incremental environment are compared with its newest generation only
  (`env-inc.cc:226-234`), which `AssertionsKept` allows for. Merging copies classes
  with no occurs check, as in `EnvPer`: finding 1 is about all three.
- **Types** are compared by structure where the code compares canonical pointers.
  In the environments there are no tuple and function types; in `Interpretations`
  a type is a sequence of atoms and has no parameters; `TypeMap` has all kinds.
- **Collector.** The client rules that the model assumes are those that the program
  follows: it traces only inside a young generation, and points an object
  at another only while it belongs to the generation in use. One generation is open at a
  time (`GenAssumption`): only `operator()` opens one, and it does not call
  itself. With two, one bit cannot tell what was traced in which, and
  `KeptAreLive` fails. No static root is registered anywhere in the repository.
  Reading a deleted interpretation is undefined: the model lets the read
  answer either way.
- **Resolver.** `resolve()` and `resolveAssertions()` are abstracted to the
  interpretations they find and to whether each can be solved.
- **Conversions.** The `in` lists are sets: no reader depends on their order.
  `std::sort` is a choice among the sorted orders of the list (`Sorted`), as it may
  put equals either way.
- **Search.** `Directions` is one question in one build. Environments are sets of
  classes there, unification is by definition, and specialisation costs come from a
  function's number of assertions. Conversions are looked up as the code looks them up: `arrival`
  is the order in which `addType()` met the types, and `FindTo` and `FindBetween` see what it has
  put into the lists in that order, so that half of the conversions are missing from the `in`
  lists and their reverses stand there instead (finding 4). `bu` and `co` expand arguments by
  `find_from()`, which is complete; `td` depends on `find_to()`, and all three on
  `find_between()` for a target.
  - `CheapestIsFound` compares the builds with `Typings`, from above and from below. No answer is
    cheaper than all typings. No typing is cheaper than all answers, of those whose conversions
    the build finds (`Lookups`): in `td` this leaves out typings through conversions that
    `find_to()` misses, in `bu` and `co` only targets that `find_between()` misses. Scopes are those
    that `Plain` admits. Left out, and why: functions that
    return tuples (the builds truncate them differently, below); functions with a variable
    repeated among the parameters; in `bu` with several parameters, in `td` for nested calls, functions
    with a variable as result (interpretations with that type are conflated, below); in `td`, functions with two polymorphic parameters (its cache
    then answers for another environment, below); generic functions asked for as void, and for
    `DIR=co` questions with an argument that is ambiguous (it is dropped, where `bu` keeps it).
  - `AnswersFit` is about all scopes and questions. In `td` two kinds of answer need not fit: those
    dearer than another, among which are the ones that `find_to()` makes with a conversion in the
    wrong direction; and those to a question with a nested call of one argument that is one of several
    arguments, where a function returns a tuple: `g(f(p), a)` asks for `f(p)` untruncated
    (`resolver-td.cc:187`), and `f` hands that on to `p` (`:139-140`), so that it gets a tuple
    where it takes one value.
  - `ExpansionIsCheapest` is about all scopes and questions with at most `MaxExpanded` answers:
    they are expanded in every order.
- **Assertions.** `resolveWithType` answers from a library, all libraries within a set
  of functions; the environment is the value of each class. `FindsTheCheapest`
  compares with all assignments, under the conditions of `Plain`:
  - The tree has calls only, and no function has assertions of its own: an assertion of a
    bound expression is resolved in the next pass, after the choice it depends on.
  - No function is a cast: what `resolveWithType` finds is a call.
  - Functions of one name and one result type take one type. `convertTo()` keeps only the
    cheapest for each result type, and `resolveAssertion()` binds it at once when it is alone; the
    one dropped may have been what another assertion of the same variable needs.
  - In the builds with the cache, nothing is asserted twice: what shares a key is one item, and
    paid for once.

  Without the last two it is false (`FindsTheCheapestAnyhow`, below).
- **Type map.** The iterators are computed as the code steps them, on a map that does
  not change meanwhile: no client changes a map it iterates over. `IteratorsMatch` says
  what they list with the losses described below.
- **Blocks.** Declarations are known by name, key and kind. `}` with no block open pops
  the last scope, after which the model stops with what an abort or the
  message "Unmatched braces" may follow.

## What the runs show

| Run | Instance | Question |
|---|---|---|
| `persistent_map` | 4 nodes, 2 keys, 2 values | Does every version stay the map it was made, whatever is read and written in between? Is every call seen from outside a step of `VersionedMap`? Does `reroot()` end? |
| `disjoint_set` | 3 nodes, 4 elements, two starting forests | The same for forests; do circular lists and heights survive a merge undone and redone? |
| `env_per` | 3 variables, 2 concrete types, 2 assertions, 4 operations | Is every environment the most general one for its equations, with both sides' assertions, and every failure real? |
| `class_env` | 3 variables, 2 environments, 5 operations, both variants | The same for `ENV=inc` and `bas`; do caches and indices lead to the right class, and is no environment changed through another? |
| `resolver` | 7 addresses, 3 results, 2 costs | Is the verdict that of all results although the loop stops early, does the result survive, and is exactly what was traced kept? |
| `directions` | 10 expressions, 3 target types, scopes of up to 3 of 13 declarations, 2 orders in which the types are met, 3 builds | Are answers well typed, is the cheapest found of what the build can look up, and does the order of expansion not matter? |
| `parts` | five parts, one per behaviour | type map: is it a map, and do iterators list the matches? conversions: complete and sorted? loops: the product, in order, and do they end? blocks: is what is found, traced and counted what is in force? assertions: bound, consistently, by the cheapest choice? |
| `env_per_occurs`, `unify_occurs`, `resolver_invalid`, `conversions_find`, `type_map_nested` | small | counterexamples, below |

**Bounds.** Four map nodes allow a version, two branches from it and a
grandchild: every shape in which reading one version reverses another's path,
and stacks of four frames. Three disjoint-set nodes over four elements start
from three singletons, to which the fourth element can be added, or from two
pairs, whose merge makes a tree of height two: heights grow when trees of equal
height are merged, and shrink when that is undone. In `env_per`, four operations make a
common ancestor, two siblings with edits of their own, and merge them, or three
of them before a merge with an older one; three variables are needed for a
class of two against a third. Variables are inserted one by one only into the
first environment; elsewhere `unify` inserts them. No environment is used after
a failed operation, which changes none, nor one that nothing satisfies (finding
2 is how there are any). Behaviours with assertions in them unify only
`AssnTypes`, one pair: assertions and types meet in `merge()` alone. In `class_env`
two environments and five operations make parent and child generations, a second
child, and merges of each with the other. In `resolver`
two costs tell "as cheap" from "dearer" and three results make an ambiguous pair
and a dearer third. In `directions` three types in a row give cheap, dear and unsafe
conversions; they are met in the order of their size, where `find_to()` finds the conversions
that widen, and in another, where it finds some of both kinds and misses some of both. The
declarations overload by type, arity, tuple, void and
polymorphism; three at once suffice for a call, its argument and a rival of
either. Up to six answers are expanded in every order. In `parts`, three queues of two elements roll over two at a time; four
nested blocks hold empty ones between full ones; the conversion types include neighbours and
gaps, so that costs tie and differ; the libraries are all subsets of nine and of eight
functions, with the recursion limit at three; the type map is offered types with and
without variables, functions, tuples and a generic one, in every order. The counters bounded in guards are named in the modules:
`MaxOps`, `MaxEnvs`, `MaxGen`, `MaxCost`, `MaxResults`, `MaxDecls`, `MaxBlocks`, `MaxQueues`,
`MaxElements`, `MaxExpanded`.

**Fairness.** `persistent_map` and `disjoint_set` check `CallsReturn` (a `reroot()` begun is
finished), `parts` checks `Ends` (a loop over combinations is finished). They assume weak
fairness of the steps of a call that has begun: the program has one thread and
nothing blocks it. No fairness is assumed of the client, who may never call again.

**Deadlock** is not checked where the model stops at a bound or the program
would wait for input.

### Disagreements found

Each is a run that TLC finishes with a counterexample.

1. `env_per_occurs`: merging environments has no occurs check. Merging
   `{R := list<T>}` with `{T ~ R}` gives a class bound to a type that contains
   it, which `env-per.cc:100` asserts cannot be (`env-per.h:437,457`).
2. `unify_occurs`: `unify(T, list<T>)` succeeds: the failed occurs check is
   returned with the type still in place, and the caller takes a type for
   success (`type_unifier.h:69,247`, `type_mutator.h:62-65`).
3. `resolver_invalid`: the invalid interpretation that `operator()` returns is
   deleted by its own guard before `addExpr()` reads it (`resolver.cc:49,139`).
4. `conversions_find`: `addType()` puts conversions to an older type into the new type's
   `in` list (`conversion.cc:117`), so `find_to()` and half of `find_between()`
   do not find them. `find_to()` also gives conversions *from* the type, so that
   `DIR=td` has answers of a wrong type, though a cheaper one beside them.
5. `type_map_nested`: insertion into a type map makes one key of each type of a list,
   while look-up goes into its parameters (`type_map.h:1092`). A value inserted
   under `list<list<a>>` is never found, and `list<list<a>>` shares its leaf with
   `list<list<b>>`.

Seven more properties are stated in the modules, after a comment in the source, and
TLC refutes them when a configuration names them:

- `ClassEnv!RefsAreCurrent`: the unifier holds a `ClassRef` over a recursive call and then
  calls `update_root()`, "in case of iterator invalidation" (`type_unifier.h:61,240`), which
  is empty in `env-inc.h:56` and `env-bas.h:47`; the class may have moved (`StaleInputs`
  of `MCClassEnv`).
- `Assertions!AllAssertionsBound`: "Ensures that all assertions in an expression tree are
  resolved" (`resolve_assertions.h:31`), but the loop ends when nothing is open
  (`:662`) although the last pass has deferred some (the instance of `parts`).
- `Directions!MergedAreOneType`: `merge_ambiguous()` "must have same cost, type, and underlying
  expression" (`interpretation.h:64`), but interpretations are compared by a
  type variable (`resolver-bu.cc:165`, `resolver-td.cc:111`), which each may bind
  to another type (`Overloads` and `OverloadedCall` of `MCDirections`).
- `Directions!AllAnswersFit`: "Resolves expression with the target type" (`resolver-td.cc:475`), of
  every answer, not only those that can be chosen: the conversions in the wrong direction, and the
  tuple handed on, are refutations (the instance of `directions`).
- `Directions!CheapestOfAllIsFound`: `find_to()` "Returns a range containing all the conversions to
  ty" (`conversion.h:160`), but `DIR=td` misses the cheapest typing when it needs one of those it
  does not find (the instance of `directions`).
- `Directions!CacheLosesNothing`: the cache holds interpretations "under same environment"
  (`resolver.h:156`), but what it keeps of an argument was found while a variable had
  another type, and is all that a second parameter gets (the instance of `directions`).
- `Assertions!FindsTheCheapestAnyhow`: resolution tells "whether all assertions can be consistently
  bound at a unique minimum cost" (`resolve_assertions.h:669`), but a function is
  dropped for a cheaper one of the same result type that then conflicts, and repeated assertions
  are paid for once (the instance of `parts`).

The passing runs state what holds beside these: `MostGeneral` speaks of
environments whose equations have a solution, `FoundIsRight` of what a look-up
does return, `CheapestIsFound` of what the look-ups find, `ValidResultKept` of valid results, `FoundIsGiven` in `parts` of types that are
not nested, `NothingForgotten` counts what is left deferred, and `FindsTheCheapest`
holds under `Plain`.

What follows was met while modelling. The models do what the code does; no property
is about it beyond those named above.

- Environments: `resolver-td.cc` merges environments that are no versions of each other,
  which `env-per.h:606` allows for by merging class by class.
- Assertions: `ASN=imm` does not compile (`resolve_assertions.h:565-581`). With the cache,
  the cost of a resolution shared by two assertions is counted once. A single
  satisfying interpretation that is ambiguous fails in `bindRecursive()`. `:668-671`
  promises "a unique minimum cost", yet a call that stays ambiguous is returned as resolved.
- Arguments: `ArgPack::truncate()` charges the atoms kept, not those dropped
  (`arg_pack.h:67-74`; `expand_conversions.h:242` charges those dropped). `DIR=td` truncates a
  tuple given to a function of one parameter, `bu` wants its exact size, `co`
  never truncates. For a void target `td` accepts a function that returns a variable and
  `convertTo()` does not. A name in `td` loses the cost of substitution.
- The cache of `td` is said to be "under same environment" (`resolver.h:156`) but its key
  has none; `resolver-td.cc:531` returns cached answers without unifying when the
  environment is empty, and otherwise unifies a tuple by its first atom. The truncation
  cost of `resolver-td.cc:328` is inverted, and moot, since the function
  it charges for is looked up by the whole type. `expand_conversions.h:259-270` is dead.
- Type map: at a dead end `PolyIter` and `MatchIter` drop siblings they have not tried
  (`type_map.h:833-841,858`); after a failed push `MatchIter`'s index is one too high
  (`:960`); a variable never stands for a whole parameterised type; `PolyKey` compares
  either the name or the instance, never both (`:75`); `count()` goes into the parameters of a
  function's result only.
- Lists: `nway_merge.h:88` and `merge_list.h:148` would not work, and nothing instantiates
  them. `for_each_combo()` with no queues would underflow; its callers have two or more.
- Parser: `scoped_map.h:231,254,268,289` say "outermost" where the code, and `:26`, use the
  innermost scope. A surplus `}` pops the only scope (asserted against in `:212`) before the
  message about braces. `parse_conc_type()` advances past `[` also when it then fails.

## What is proved

**The persistent structures.** `PersistentMapProofs` and
`PersistentDisjointSetProofs`, checked by TLAPS, hold for any sets of nodes, keys, values and elements. Assumed
(`ConstantsAssumption`) is only that the markers for "none" are not members of
the sets they complete and, for the disjoint set, that the elements are finitely
many and that the initial forests are what calls can build (`BuiltUp`).

- `TypeCorrect` (`TypeOK`), `VersionsAreImmutable` (`VersionsPersist`) and
  `AssumptionsHold` (`RerootAssumptions`, `LookupsSucceed`), for both structures.
- `Refinement` (`ImplementsVersionedMap`): initial states map to initial states;
  the step that completes a call is a step of `VersionedMap`; the steps of
  `reroot()` stutter.

The argument. A history variable, `content[n]`, records what version `n` was made
to hold. A proof that the chain of edits from `n` to the table computes it
would need induction along the chain. `VersionsPersist` instead relates
*neighbours* only: a node with the table has its own content there
(`TableIsContent`, `ForestIsContent`); the edit of any other node, applied to the
*content* of its base, gives its content, and is an edit that can be applied
there: a key inserted is absent, a key updated or removed present, two merged
classes have different roots (`EditIsContent`). A rotation of `reroot()` swaps a
table with the edit next to it, so that only these two nodes have to be looked
at, and the edits that lead to either still lead to the same content.

`VersionsPersist` is not inductive alone. `IInv` adds

- the types of all variables;
- `ContentOfMade`: exactly the allocated nodes have a content;
- `FramesServeCall`: the outermost frame of `reroot()` is the version the call
  in progress is about, and when no frame is left that version has the table.
  Without it, an operation could read a table that is not there, or edit
  another version's;
- for the disjoint set, `ForestsClosed` (contents are closed under parents and
  successors) and `CallInForest` (the call was permitted, and its cursor is an
  element of the forest it climbs).

`UnmergeMerge` is the algebra behind the disjoint set: swapping two `next` fields
a second time, and adding and subtracting the height modulo 256, restores the
forest exactly. There is one lemma per action, with a step per conjunct that
the action can disturb.

**Classes, heights and the partition.** The second half of `PersistentDisjointSetProofs` says what
the forests stand for, on the same assumptions:

- `ClassListsAreClasses` (`ClassListIsClass`): from any member the circular list passes
  through the elements with the same root, each once.
- `HeightsAreRight` (`HeightsAreLogarithmic`): a root's height is the length of the longest
  path to it, and a tree of height h has at least 2^h elements. Assumed: fewer than 2^256
  elements, or the byte would overflow.
- `RootsExist`: the parents lead every element to a root. Without it the
  partition would not be defined.
- `Refinement` (`ImplementsVersionedPartition`): clients see immutable partitions. `add` and
  `merge` map to the steps of `VersionedPartition`, `find()` answers the root
  and `find_class()` the whole class; every other step stutters. `RInv` adds what a call under way
  needs: `find()` climbs within one class, and `find_class()` has
  collected only members of it, and all that its cursor has passed.

Following a field is a recursive function, of which an invariant cannot say much. `AllRooted`
says instead that some function gives every element its root, in terms of the sets that the
fields do not lead out of (`Rooted`), which is easy to follow through a merge: a merge
swaps two `next` fields, and a set closed under them before is closed after, but for the two classes that
have become one. `Orbit` then decides where any number of steps
can lead, because the elements are finitely many. Where a proof counts steps it takes the least
number with a property, or shows a set of naturals to hold zero and every successor
(`DataFacts`); no theorem needs an induction rule with an operator as a parameter.

**The collector.** `ResolverProofs`, for any set of addresses: `NothingKeptIsDeleted`
(`KeptAreLive`), `NothingElseStays` (`OnlyKeptAreLive`), `TypeCorrect`. What an
object leads to is defined as the least closed set (`ReachIn`), not by steps, so
that no induction is needed: a set is shown to be reached by being in
every closed set, and to hold all that is reached by being closed
(`ReachIsLeast`). The invariant adds `MarksTellTraced`, the meaning of the bit:
outside a young generation nothing is marked; inside one, everything older is,
and of its own objects exactly those that what was traced leads to. It needs
`PointBack` (older objects do not point to younger ones), or tracing would stop
at an older object that still leads to an unmarked one. `ReachMore` is the heart of
it: a depth-first mark that stops at marked objects completes what was marked
before. Assumed: `GenAssumption`.

**The top of the resolver.** The same module, for any number of results and any
costs: `EarlyStopIsRight` (`VerdictIsRight`), `ValidResultSurvives`
(`ValidResultKept`), `ResolverTypeCorrect`; and `FollowsCollectorRules`, that
every step is one `GC` allows, so that the collector's theorems hold in the program.
The loop invariant (`SearchInv`): results are sorted; of the eligible results
already seen there is none, one or several as there are none, one or several
candidates; and those seen all cost what the candidates cost. When the
search ends (`SearchDecides`), what was seen is exactly what is best.

**The lists of combinations.** `CombosProofs`, for any number of queues of any length and
costs (assumed: the bounds are naturals and costs integers, `BoundsFit`): `MergeIsRight`
(`CombosAreAll`) and `FilterIsRight` (`FilterIsExact`). The loops keep
one vector of indices. The invariant says which combinations it stands for having been asked
about (`Behind`): in `MergeInv` all that come before it in the order, in `FilterInv` also that its
prefixes were accepted and that nothing they have passed rejected what follows (`Standing`). The verdicts are about just
these: for `filter_combos()`, about every beginning that earlier verdicts leave standing and that the
vector has reached (`Asked`), so that a rejection skips what it rules out and no more (`NoneSkipped`,
`AskedGrows`). The result is what they accept, and the cost kept up by differences is the sum of the indexed
elements. Rolling over several queues at once is where it could break: nothing lies between a vector
and the one after it (`BehindNext`).

**The conversion graph.** `ConversionsProofs`, for any types with any numbers, added in any
order (assumed: the numbers are integers, `IdsFit`): `OutListsAreRight` (`OutIsComplete`) and
`LookUpsAreRight` (`FoundIsRight`). No two conversions from one type cost the same, so that they have a strict
total order, and a list in that order is known by its members (`Lists`). `ConvInv` says that of every `out` list, and of
the `in` lists only that they hold conversions from or to their type: more is not true (finding 4),
and it is enough for what a look-up returns. That
there is a sorted order for `std::sort` to return is itself proved, by repeated insertion.

**The assertion resolver.** `AssertionsProofs`, for any library, tree and limit of recursion:
`BindingsAlwaysFit` (`BindingsFit`), `NothingIsForgotten` (`NothingForgotten`) and
`CheapestIsAlwaysFound` (`FindsTheCheapest`). All look at the end of a run; what makes them true holds between any two calls of `resolveAssertion()`, of the outer resolver and of
those that try alternatives. The invariant, `AInv`, says of a resolver (`Right`):

- What it has cached for a key answers every assertion with that key (`KeysFit`), in an
  environment from which the present one has grown (`Grew`): a variable bound since has not
  changed the answer. What waits fits each of its choices in the environment that this choice
  brings (`ItemFits`), so that merging it makes the binding right.
- What is bound, may be chosen or may be repeated from the cache needs assertions that are themselves
  held: bound, waiting, open, or to be resolved in this pass (`Kept`, `Held`). Without
  the part about the cache, a repeated expression could have lost its assertions.
- These places share nothing, and ids tell assertions apart: an id is a place in the
  tree, or extends the id of a bound assertion (`Distinct`). Without it, an expression bound now could
  need an assertion that something else is already about, and
  binding one would take the other for done.
- An alternative is tried by a resolver of its own, which knows the bindings of the outer one but not
  what that has deferred. `J` and `K` stand for this. When the alternative's
  environment replaces the outer one, what its resolver has left deferred or open joins
  `left`, which is where `NothingForgotten` finds it.

A step of the model can make a whole inner run, `Mutate`. Its loops over the assertions of a pass, over the
deferred choices and over the passes are recursive functions (`Rounds`, `Bindings`, `Levels`): each
proof shows that a turn leaves the resolver right or failed, and adds the turns up. The limit on the depth
ends the last of them (`Levelled`).

The third theorem is about trees of calls, of functions that need nothing themselves, are no casts and are
told apart by their result types, where, with the cache, nothing is asserted twice (`Plain`). Without the
third condition what is dropped locally can be the only choice that fits, and without the last the costs
compared are not those paid; the proof uses them just there. The
resolver decides locally: it binds an assertion as soon as one expression is left for it, merges
those that share a key into one item, and chooses among the rest by the sum of the costs of one choice for each item. That
the result is the cheapest of *all* assignments rests on `CInv`, which adds to `AInv`:

- No assignment goes against what is bound. What each assignment gives a bound assertion has the value of what it is
  bound to, and is that or dearer (`Forced`); each assignment fits the environment (`Leaves`).
- What waits offers the cheapest of each value that an assignment could take (`Offer`), and several assertions
  share an item only when their variables are bound to one value. Choices cached under a key before its variable was bound are still right, as a repeated
  question finds out (`RepeatContinues`, `WaitContinues`).

A pass binds or defers one assertion after the other and keeps this (`AssertionContinues`). At its end every assertion
is posed (`PosedLaid`). A combination of choices and an assignment do not cost the same: assertions of one key
are one item, which the code counts once and an assignment as often as they are. But an item that several share
takes its cheapest choice in every cheapest combination (`SharedTakeCheapest`), and the items of one assertion each can be compared
through a combination that follows the assignment and is nowhere dearer (`FollowingIs`). So what is
built of a cheapest combination costs no more than any assignment (`MixedBeats`, `BuiltBeats`). A tie between
combinations is a tie between assignments, and no combination means no assignment (`PassFinds`). Sums are folds
over finite sets; `DataFacts` shows that such a fold is the sum that one more element adds to (`SumOver`), by
induction over the number of elements inside a set of naturals.

Assumed is `InputsFit`, which TLC evaluates on the inputs of `parts`: an unbound class and a
generic function are no types; libraries are finite, and their functions list what they need; the
assertions of a tree are of type variables, and an ambiguous expression has its own in its
alternatives (`CallExpr` and `AmbiguousExpr` are different classes). Nothing is assumed about
which functions need which, so that one that needs itself is included.

**Blocks.** `BlocksProofs`, for any declarations, any depth of blocks and any expressions that are finitely many
trees (`ExprsAssumption`, which TLC evaluates on the inputs of `parts`): `FoundAreAlwaysInScope` (`FoundAreInScope`),
`TracedAreAlwaysInForce` (`TracedAreInForce`) and `MetricsAlwaysAgree` (`MetricsAgree`). The properties speak of what
is read *from* the scoped maps; the invariant, `BlocksInv`, of what is *in* them: every open block has its own scope in
each table and in the metrics, whose entries are the lists, or the number, of that block's declarations by name, and no
two blocks declare the same (`TableFits`, `CountsFit`, `BlocksFit`). A line changes the innermost scope, or adds or
takes away one, of all of them together. What is read from such scopes is shown once for any table:

- `FoundAt`: the n-th thing that `findAll()` gives is that of the n-th innermost scope that has the key. `SumIs` and
  `CountIs` add up what is found, and blocks that share nothing have as many declarations together as each for itself.
- `VisitIs`: the loop from `begin()` to `end()` ends, and is at each entry once. The place reached
  after an entry is the next one in the order of the scopes (`NextIs`, `ValidIs`), however many scopes in between are
  empty, and what lies ahead of it is one less (`Ahead`), which is why the recursion ends.
- `DepthsAgree`: the parser's local depth and the metrics' visit are the same function of the expression up to one for
  the root. Both are recursive over trees: that such functions exist, and that there is one only, is shown by the
  height of the tree (`DepthsExist`, `MarksAre`).

## Only model-checked

- `CallsReturn`, `Ends`: liveness under fairness.
- `EnvPer`, `ClassEnv`, `BottomUp`, `TopDown`, `Directions`, `TypeMap`: their
  operators are recursive, as the code is, over types, expressions or tries.
  What they compute for every input is out of reach of proof, and the
  properties are about just that.
- `ReturnedIsLive`, `FindsPresent`, `Acyclic`, `UnifiedIsSolvable`, `FoundIsGiven` for nested
  types: they do not hold.

## Not modelled

- The characters of the input and of the output, the command line, timing: no property
  depends on their wording. `Blocks` starts from what a line declares.
- The benchmark generator: another program, which draws random inputs.
- Data structures that nothing includes or instantiates: `cow.h`, `lazy_list.h`, `nway_merge.h`,
  `merge_list.h`, `sorted_eager_merge()`. Functions never called: `get_or_insert`,
  `unifyTuple`, `make_conversions`, `find_matching`, `TypeMap::erase`.
- Function types in the environments and in the search: nothing in the repository's
  inputs passes functions as values but for assertions, which are resolved by name.
- The composition of the search with a full environment and with the assertion resolver:
  each is checked against a reference of its own, and the product of their states is
  out of TLC's reach.
- Arithmetic overflow of costs: it takes as many conversions as an unsigned can count.
