\* Three threads that insert, delete, search and update two adjacent keys.
CONSTANTS
  t1 = t1
  t2 = t2
  t3 = t3
  v1 = v1
  v2 = v2
  Thread = {t1, t2, t3}
  Value = {v1, v2}
  Key = {1, 2}
  Filled <- Both
  Capacity = 3
  Ops <- Mixed
  Null = null
  None = none
  MaxCalls = 1
CONSTRAINT Unspoilt
SPECIFICATION Spec
INVARIANTS
  TypeOK
  Sorted
  NodesKept
PROPERTIES
  ResultsRight
  ImplementsDictionary
