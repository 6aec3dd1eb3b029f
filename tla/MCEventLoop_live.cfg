SPECIFICATION FairSpec
CONSTANTS
  e1 = e1
  e2 = e2
  l1 = l1
  l2 = l2
  l3 = l3
  Emitters = {e1}
  Listeners = {l1, l2}
  Setups <- OneMissing
  Results = {"good"}
  ParamLens = {2}
  ErrorLens = {}
  BigInit = 1
  SmallInit = 1
  IdSpan = 6
  CIntMax = 7
  MaxAlloc = 16
  MaxDepth = 2
  MaxEmits = 3
  MaxEvents = 5
  AllowFree = TRUE
  AllowUnset = FALSE
  Nothing = Nothing
PROPERTIES
  EmitsAnswered
  ListenersFinish
CHECK_DEADLOCK FALSE
