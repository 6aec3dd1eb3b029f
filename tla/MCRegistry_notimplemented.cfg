SPECIFICATION Spec
CONSTANTS
  p1 = p1
  p2 = p2
  u1 = u1
  u2 = u2
  f1 = f1
  f2 = f2
  n1 = n1
  n2 = n2
  Pluggers = {p1}
  Users = {u1}
  Files = {f1, f2}
  Names = {n1, n2}
  Directories <- OneDefect
  MaxInstances = 1
  Exclusive = TRUE
  SharedValue = FALSE
  IdSpan = 3
  None = None
INVARIANTS
  NotImplementedRefused
CHECK_DEADLOCK FALSE
