\* Nodes are freed as the code does, while other calls still hold them.
CONSTANTS
  t1 = t1
  t2 = t2
  t3 = t3
  v1 = v1
  v2 = v2
  Thread = {t1, t2}
  Value = {v1, v2}
  Key = {1, 2, 3}
  Filled <- Both
  Capacity = 2
  Ops <- Reused
  Null = null
  None = none
  MaxCalls = 4
CONSTRAINT OnlyEarly
SPECIFICATION Spec
PROPERTY FoundIfPresent
CHECK_DEADLOCK FALSE
