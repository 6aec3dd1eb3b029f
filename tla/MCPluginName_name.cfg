SPECIFICATION FairSpec
CONSTANTS
  Loaders = {u1, u2, u3}
  Lens = {0, 4, 5}
  SmallInit = 1
  IdSpan = 4
  CIntMax = 7
  MaxAlloc = 16
INVARIANTS
  TypeOK
  NameWhole
  HaltsOnlyOfLongName
PROPERTIES
  FloorHolds
  LoadsGetName
CHECK_DEADLOCK FALSE
