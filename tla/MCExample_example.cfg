SPECIFICATION FairSpec
CONSTANTS
  f1 = f1
  f2 = f2
  Files = {f1, f2}
  Directories <- AnyTwo
  MaxInstances = 3
  IdSpan = 4
  None = None
INVARIANTS
  TypeOK
  EmitterFindsOwn
  DiesOfNilOrLateListener
  LeavesNothing
PROPERTIES
  Finishes
CHECK_DEADLOCK FALSE
