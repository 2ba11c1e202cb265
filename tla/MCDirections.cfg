SPECIFICATION Spec
CONSTANTS
  A = A
  B = B
  C = C
  T = T
  U = U
  Conc = {A, B, C}
  Null = Null
  Conversion <- Chain
  Pool <- Declarations
  MaxDecls = 3
  MaxExpanded = 6
  Exprs <- Expressions
  Targets <- TargetTypes
  Arrivals <- Orders
INVARIANTS AnswersFit CheapestIsFound ExpansionIsCheapest
CHECK_DEADLOCK FALSE
