SPECIFICATION PartsSpec
CONSTANTS
  Null = Null
  ConcIds <- Ids
  Named = {list}
  MaxQueues = 3
  MaxElements = 2
  Costs = {1, 3}
  varT = "T"
  varS = "S"
  int = "int"
  char = "char"
  funF = "f"
  funG = "g"
  funH = "h"
  Var = {"T", "S"}
  Val = {"int", "char"}
  Free = "free"
  AnyType = "any"
  Returning = {"f", "g"}
  MaxDepth = 3
  Decls <- Declarations
  Exprs <- Inputs
  MaxBlocks = 4
  MaxDecls = 3
  Libs <- Libraries
  Trees <- Expressions
INVARIANTS FoundIsGiven IteratorsMatch OutIsComplete FoundIsRight
INVARIANTS CombosAreAll FilterIsExact FoundAreInScope TracedAreInForce MetricsAgree
INVARIANTS BindingsFit NothingForgotten FindsTheCheapest
PROPERTY Ends
CHECK_DEADLOCK FALSE
