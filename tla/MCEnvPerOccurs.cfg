SPECIFICATION Spec
CONSTANTS
  T = T
  S = S
  R = R
  int = int
  char = char
  d1 = d1
  d2 = d2
  x1 = x1
  x2 = x2
  Var = {T, S, R}
  Conc = {int, char}
  Null = Null
  None = None
  Decl = {}
  Impl = {}
  UnifyInputs <- TypeInputs
  AssnTypes = {}
  MaxOps = 4
INVARIANTS Acyclic
CHECK_DEADLOCK FALSE
