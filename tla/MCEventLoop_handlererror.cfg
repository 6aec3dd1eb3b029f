SPECIFICATION Spec
CONSTANTS
  e1 = e1
  e2 = e2
  l1 = l1
  l2 = l2
  l3 = l3
  Emitters = {e1}
  Listeners = {l1}
  Setups <- BothConfigured
  Results = {"good", "undecodable", "unencodable"}
  ParamLens = {2}
  ErrorLens = {2}
  BigInit = 1
  SmallInit = 1
  IdSpan = 6
  CIntMax = 7
  MaxAlloc = 16
  MaxDepth = 0
  MaxEmits = 1
  MaxEvents = 2
  AllowFree = FALSE
  AllowUnset = FALSE
  Nothing = Nothing
INVARIANTS
  HandlerErrorReaches
CHECK_DEADLOCK FALSE
