SPECIFICATION Spec
CONSTANTS
  T = T
  S = S
  R = R
  int = int
  char = char
  d1 = d1
  x1 = x1
  x2 = x2
  Var = {T, S, R}
  Conc = {int, char}
  Null = Null
  None = None
  Decl = {d1}
  Impl = {x1, x2}
  UnifyInputs <- Inputs
  MaxEnvs = 2
  MaxOps = 5
INVARIANTS LookupsAgree MostGeneral FailuresAreReal AssertionsKept
PROPERTIES EnvsApart
CHECK_DEADLOCK FALSE
