SPECIFICATION FairSpec
CONSTANTS
  c1 = c1
  c2 = c2
  l1 = l1
  l2 = l2
  Callers = {c1}
  Emitters = {}
  Listeners = {l1, l2}
  Methods = {"Command"}
  Args = {"good"}
  Results = {"good"}
  ResultLens = {2}
  ParamLens = {2}
  ErrorLens = {}
  BigInit = 1
  SmallInit = 1
  IdSpan = 6
  CIntMax = 3
  MaxAlloc = 4
  MaxCalls = 2
  MaxDepth = 1
  MaxEmits = 2
  MaxEvents = 4
  AllowFree = TRUE
  AllowUnset = FALSE
  Nothing = Nothing
PROPERTIES
  OpenPaths
  CallsReturn
CHECK_DEADLOCK FALSE
