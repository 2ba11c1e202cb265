SPECIFICATION Spec
CONSTANTS
  T = T
  S = S
  R = R
  int = int
  char = char
  d1 = d1
  d2 = d2
  x1 = x1
  x2 = x2
  Var = {T, S, R}
  Conc = {int, char}
  Null = Null
  None = None
  Decl = {d1, d2}
  Impl = {x1, x2}
  UnifyInputs <- TypeInputs
  AssnTypes <- OneBinding
  MaxOps = 4
INVARIANTS RootsAreBound MostGeneral FailuresAreReal PathsFit AssertionsKept
CHECK_DEADLOCK FALSE
