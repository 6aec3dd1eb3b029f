SPECIFICATION Spec
CONSTANTS
  e1 = e1
  e2 = e2
  l1 = l1
  l2 = l2
  l3 = l3
  Emitters = {e1, e2}
  Listeners = {l1, l2}
  Setups <- BothConfigured
  Results = {"good", "undecodable", "unencodable"}
  ParamLens = {2}
  ErrorLens = {3}
  BigInit = 1
  SmallInit = 1
  IdSpan = 6
  CIntMax = 7
  MaxAlloc = 16
  MaxDepth = 0
  MaxEmits = 2
  MaxEvents = 4
  AllowFree = TRUE
  AllowUnset = TRUE
  Nothing = Nothing
SYMMETRY ThreadSymmetry
INVARIANTS
  TypeOK
  EventMapMatches
  AwaitedIsCarried
  HandlerSeesOwnEvent
  NoOverrun
  ResponseTellsVerdict
  HaltsOnlyUnquiet
PROPERTIES
  ImplementsInvocation
  FloorHolds
CHECK_DEADLOCK FALSE
