SPECIFICATION Spec
CONSTANTS
  c1 = c1
  c2 = c2
  Callers = {c1, c2}
  Methods = {"Start", "Init"}
  Setups <- AllConfigured
  ResultLens = {1, 4}
  ErrorLens = {0, 2}
  BigInit = 1
  SmallInit = 1
  IdSpan = 4
  CIntMax = 7
  MaxAlloc = 16
  MaxCalls = 3
  AllowFree = FALSE
  Nothing = Nothing
SYMMETRY CallerSymmetry
INVARIANTS
  ErrorsSurvive
CHECK_DEADLOCK FALSE
