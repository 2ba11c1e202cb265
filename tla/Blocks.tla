------------------------------- MODULE Blocks -------------------------------
(***************************************************************************)
(* The driver's input (src/driver/parser.cc): nested blocks, each with its *)
(* declarations, "%%" and then expressions and blocks, read line by line   *)
(* and given to the resolver at once.  With it, what a block's end must    *)
(* undo: the scoped maps (src/data/scoped_map.h) of the table of           *)
(* declarations (src/resolver/func_table.h) and of the metrics' counts     *)
(* (src/driver/metrics.h).                                                 *)
(*                                                                         *)
(* A line is blank, "%%", "{", "}", a declaration, an expression or        *)
(* neither; a declaration's type is known by the key it is indexed by.     *)
(***************************************************************************)
EXTENDS Integers, FiniteSets, Lists, FiniteSetsExt

CONSTANTS Decls,      \* declarations: [name, id, func, params, returns, type]
          Exprs,      \* expressions and their arguments: [kind, name, args]
          MaxBlocks,  \* bound: blocks open at a time
          MaxDecls    \* bound: declarations in force at a time

\* An expression is a tree: its arguments are lower than it is.
ASSUME ExprsAssumption ==
  /\ IsFiniteSet(Exprs)
  /\ \E height \in [Exprs -> 1 .. Cardinality(Exprs)] :
       \A e \in Exprs : /\ e.args \in Seq(Exprs)
                        /\ \A k \in DOMAIN e.args : height[e.args[k]] < height[e]

VARIABLES dir,         \* the resolver's direction, "bu" or "td"
          phases,      \* one per open block: reading its "decls" or its "body"
          scope,       \* run_input()'s count of the braces
          funcs,       \* Resolver::funcs ("bu"), or its table of functions ("td")
          byType,      \* the table of all declarations ("td")
          perName,     \* Metrics::decls_per_name
          maxPerName,  \* Metrics::max_decls_per_name
          maxDepth,    \* Metrics::max_depth
          read,        \* history: the set of declarations of each open block
          mostRead,    \* history: the most declarations of one name at a time
          status       \* "reading", "done", "exit" or "abort"

blockVars == <<dir, phases, scope, funcs, byType, perName, maxPerName, maxDepth,
               read, mostRead, status>>

DeclNames == {d.name : d \in Decls}

-----------------------------------------------------------------------------
(* ScopedMap: a sequence of scopes, the innermost last                     *)

NoEntries == [key \in {} |-> {}]
BeginScope(scopes) == Append(scopes, NoEntries)
EndScope(scopes) == Front(scopes)

\* findAt() the current scope, or a new entry.
Current(scopes, key, new) ==
  IF key \in DOMAIN Last(scopes) THEN Last(scopes)[key] ELSE new

\* insert(), or the entry found assigned to.
Put(scopes, key, value) ==
  [scopes EXCEPT ![Len(scopes)] =
     [k \in DOMAIN @ \cup {key} |-> IF k = key THEN value ELSE @[k]]]

\* Mutant of FindAll: only the innermost scope that has the key.
FindInnermost(scopes, key) ==
  LET has == {i \in DOMAIN scopes : key \in DOMAIN scopes[i]}
  IN IF has = {} THEN << >> ELSE <<scopes[Max(has)][key]>>

\* findAll(): from the innermost scope outward.
FindAll(scopes, key) ==
  LET found[i \in 0 .. Len(scopes)] ==
        IF i = 0 THEN << >>
        ELSE IF key \in DOMAIN scopes[i] THEN <<scopes[i][key]>> \o found[i - 1]
        ELSE found[i - 1]
  IN found[Len(scopes)]

\* Where an iterator can be: at an entry of scope i, its keys listed in keys[i],
\* or past the last one.
Places(keys) == UNION {{i} \X (1 .. Len(keys[i]) + 1) : i \in DOMAIN keys}

\* Mutant of Valid: only one empty scope is passed.
ValidOnce(keys, i, k) ==
  IF k > Len(keys[i]) /\ i > 1 THEN <<i - 1, 1>> ELSE <<i, k>>

\* next_valid() goes outward from the end of a scope, except from the outermost.
Valid(keys, i, k) ==
  LET begin[j \in 1 .. Len(keys)] ==
        IF keys[j] = << >> /\ j > 1 THEN begin[j - 1] ELSE <<j, 1>>
  IN IF k > Len(keys[i]) /\ i > 1 THEN begin[i - 1] ELSE <<i, k>>

\* The entries' places that a loop from begin() to end() visits.
Visit(keys) ==
  LET from[at \in Places(keys)] ==
        IF at[2] > Len(keys[at[1]]) THEN << >>
        ELSE <<at>> \o from[Valid(keys, at[1], at[2] + 1)]
  IN from[Valid(keys, Len(keys), 1)]

Entries(scopes) ==
  LET keys == [i \in 1 .. Len(scopes) |-> SetToSeq(DOMAIN scopes[i])]
      places == Visit(keys)
  IN [n \in 1 .. Len(places) |-> scopes[places[n][1]][keys[places[n][1]][places[n][2]]]]

-----------------------------------------------------------------------------
(* The table of declarations                                               *)

\* FlatMap::insert(): d ends the list of its key, a new one if need be.
Indexed(index, key, d) ==
  [k \in DOMAIN index \cup {key} |->
     IF k # key THEN index[k]
     ELSE Append(IF key \in DOMAIN index THEN index[key] ELSE << >>, d)]

\* FlatMap's iterator: the lists one after the other.
Flat(index) ==
  LET keys == SetToSeq(DOMAIN index)
  IN FlattenSeq([i \in 1 .. Len(keys) |-> index[keys[i]]])

\* ExtractNParams: for a variable -1, that is a number no function has.
NParams(d) == IF d.func THEN Len(d.params) ELSE -1

AddTo(table, key, d) ==
  Put(table, d.name, Indexed(Current(table, d.name, NoEntries), key, d))

\* addDecl(): top-down, functions by return type and all declarations by type.
AddDecl(d) ==
  IF dir = "bu"
    THEN funcs' = AddTo(funcs, NParams(d), d) /\ UNCHANGED byType
    ELSE /\ funcs' = IF d.func THEN AddTo(funcs, d.returns, d) ELSE funcs
         /\ byType' = AddTo(byType, d.type, d)

\* The collector's loop over a table, and over the lists of each of its entries.
Traced(table) ==
  LET entries == Entries(table)
  IN FlattenSeq([n \in 1 .. Len(entries) |-> Flat(entries[n])])

-----------------------------------------------------------------------------
(* Metrics                                                                 *)

\* n_decls_for()
NDeclsFor(counts, name) ==
  LET found == FindAll(counts, name)
      sum[n \in 0 .. Len(found)] == IF n = 0 THEN 0 ELSE sum[n - 1] + found[n]
  IN sum[Len(found)]

\* Mutant of MarkDecl: only the current scope's declarations are compared.
MarkDeclLocal(name) ==
  /\ perName' = Put(perName, name, Current(perName, name, 0) + 1)
  /\ maxPerName' = Max({maxPerName, Current(perName', name, 0)})

MarkDecl(name) ==
  /\ perName' = Put(perName, name, Current(perName, name, 0) + 1)
  /\ maxPerName' = Max({maxPerName, NDeclsFor(perName', name)})

\* The deepest that parse_subexpr() marks while it reads e at a local depth.
LocalDepth(e, depth) ==
  LET marked[p \in Exprs \X Nat] ==
        Max({p[2]} \cup {marked[<<p[1].args[k], p[2] + 1>>] : k \in DOMAIN p[1].args})
  IN marked[<<e, depth>>]

\* InputExprMetrics: max_depth after a visit of e from depth.  What it counts
\* besides, no part reads but for printing.
VisitExpr(e, depth) ==
  LET after[p \in Exprs \X Nat] ==
        Max({p[2] + 1} \cup {after[<<p[1].args[k], p[2] + 1>>] : k \in DOMAIN p[1].args})
  IN after[<<e, depth>>]

-----------------------------------------------------------------------------
(* parse_block()                                                           *)

BlocksInit ==
  /\ dir \in {"bu", "td"}
  /\ phases = <<"decls">> /\ scope = 0
  /\ funcs = <<NoEntries>> /\ byType = <<NoEntries>> /\ perName = <<NoEntries>>
  /\ maxPerName = 0 /\ maxDepth = 0
  /\ read = <<{}>> /\ mostRead = 0
  /\ status = "reading"

Reading(phase) == status = "reading" /\ Last(phases) = phase

\* The declarations in force, and those with a name.
InForce(blocks) == UNION {blocks[i] : i \in DOMAIN blocks}
InForceAs(blocks, name) == {d \in InForce(blocks) : d.name = name}

\* parse_decl() of a declaration.
Declare(d) ==
  /\ Reading("decls")
  /\ d \notin InForce(read) /\ Cardinality(InForce(read)) < MaxDecls
  /\ MarkDecl(d.name)
  /\ AddDecl(d)
  /\ read' = [read EXCEPT ![Len(read)] = @ \cup {d}]
  /\ mostRead' = Max({mostRead, Cardinality(InForceAs(read', d.name))})
  /\ UNCHANGED <<dir, phases, scope, maxDepth, status>>

EndDecls ==
  /\ Reading("decls")
  /\ phases' = [phases EXCEPT ![Len(phases)] = "body"]
  /\ UNCHANGED <<dir, scope, funcs, byType, perName, maxPerName, maxDepth, read,
                 mostRead, status>>

OpenBlock ==
  /\ Reading("body") /\ Len(phases) < MaxBlocks
  /\ scope' = scope + 1
  /\ funcs' = BeginScope(funcs)
  /\ byType' = IF dir = "td" THEN BeginScope(byType) ELSE byType
  /\ perName' = BeginScope(perName)
  /\ phases' = Append(phases, "decls")
  /\ read' = Append(read, {})
  /\ UNCHANGED <<dir, maxPerName, maxDepth, mostRead, status>>

\* "}" of the outermost block ends the only scope: an assertion fails, or, in a
\* build without, run_input() finds the braces unmatched.
CloseBlock ==
  /\ Reading("body")
  /\ scope' = scope - 1
  /\ IF Len(phases) = 1
       THEN /\ status' \in {"abort", "exit"}
            /\ UNCHANGED <<funcs, byType, perName, phases, read>>
       ELSE /\ funcs' = EndScope(funcs)
            /\ byType' = IF dir = "td" THEN EndScope(byType) ELSE byType
            /\ perName' = EndScope(perName)
            /\ phases' = Front(phases)
            /\ read' = Front(read)
            /\ UNCHANGED status
  /\ UNCHANGED <<dir, maxPerName, maxDepth, mostRead>>

\* parse_expr(), mark_expr(); the resolver's work is Resolver's.
ReadExpr(e) ==
  /\ Reading("body")
  /\ maxDepth' = Max({maxDepth, LocalDepth(e, 0)})
  /\ UNCHANGED <<dir, phases, scope, funcs, byType, perName, maxPerName, read,
                 mostRead, status>>

\* A line that is neither declaration nor expression: exit(1).
BadLine ==
  /\ status = "reading"
  /\ status' = "exit"
  /\ UNCHANGED <<dir, phases, scope, funcs, byType, perName, maxPerName, maxDepth,
                 read, mostRead>>

\* The end of the input ends every block, without its scope.
EndOfInput ==
  /\ status = "reading"
  /\ status' = IF scope = 0 THEN "done" ELSE "exit"
  /\ UNCHANGED <<dir, phases, scope, funcs, byType, perName, maxPerName, maxDepth,
                 read, mostRead>>

BlocksNext ==
  \/ \E d \in Decls : Declare(d)
  \/ \E e \in Exprs : ReadExpr(e)
  \/ EndDecls \/ OpenBlock \/ CloseBlock \/ BadLine \/ EndOfInput

BlocksSpec == BlocksInit /\ [][BlocksNext]_blockVars

-----------------------------------------------------------------------------
(* Properties                                                              *)

\* What a table with the declarations of kind holds under a name is what the
\* open blocks declare: those of a block together, the innermost block's first.
FindsDeclared(table, kind, name) ==
  LET declared(i) == {d \in read[i] \cap kind : d.name = name}
      blocks == {i \in DOMAIN read : declared(i) # {}}
      found == FindAll(table, name)
  IN /\ Len(found) = Cardinality(blocks)
     /\ \A i \in blocks :
          ListsOnce(Flat(found[Cardinality({j \in blocks : j >= i})]), declared(i))

\* "Only in-scope declarations can be used within a block" (parser.h:71): the
\* resolver finds exactly these.  Top-down, every declaration is found as a
\* variable and every function as one, too.
FoundAreInScope ==
  LET functions == {d \in Decls : d.func}
  IN \A name \in DeclNames :
       IF dir = "bu" THEN FindsDeclared(funcs, Decls, name)
       ELSE /\ FindsDeclared(funcs, functions, name)
            /\ FindsDeclared(byType, Decls, name)

\* The collector marks a table by iterating over it (func_table.h:100): every
\* declaration in force is reached, once, past any number of empty scopes.
TracedAreInForce ==
  ListsOnce(Traced(IF dir = "td" THEN byType ELSE funcs), InForce(read))

\* The metrics keep their own scopes: the overloads they report of a name are
\* those the resolver has, and the most there ever were.
MetricsAgree ==
  /\ \A name \in DeclNames :
       NDeclsFor(perName, name) = Cardinality(InForceAs(read, name))
  /\ maxPerName = mostRead
  /\ \A e \in Exprs : VisitExpr(e, 0) = LocalDepth(e, 0) + 1
=============================================================================
