SPECIFICATION FairSpec
CONSTANTS
  c1 = c1
  c2 = c2
  Callers = {c1, c2}
  Methods = {"Start", "Command"}
  Setups <- OneSideMissing
  ResultLens = {4}
  ErrorLens = {2}
  BigInit = 1
  SmallInit = 1
  IdSpan = 4
  CIntMax = 7
  MaxAlloc = 16
  MaxCalls = 3
  AllowFree = TRUE
  Nothing = Nothing
INVARIANTS
  TypeOK
  MethodRunsOnce
  OwnAnswer
  NoOverrun
  ParkedWhileGrowing
  HaltsOnlyAfterFree
  ReplyTellsAnswer
PROPERTIES
  ImplementsInvocation
  FloorsHold
  CallsReturn
CHECK_DEADLOCK FALSE
