SPECIFICATION Spec
CONSTANTS
  Obj = {o1, o2, o3, o4, o5, o6, o7}
  MaxGen = 1
  MaxCost = 1
  MaxResults = 3
  None = None
INVARIANTS VerdictIsRight ValidResultKept KeptAreLive OnlyKeptAreLive
CHECK_DEADLOCK FALSE
