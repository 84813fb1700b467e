\* One thread deletes a key, the other one inserts and deletes a key in front of it.
CONSTANTS
  t1 = t1
  t2 = t2
  t3 = t3
  v1 = v1
  v2 = v2
  Thread = {t1, t2}
  Value = {v1, v2}
  Key = {1, 2}
  Filled <- Second
  Capacity = 3
  Ops <- InFront
  Null = null
  None = none
  MaxCalls = 2
CONSTRAINT OnlyMisled
SPECIFICATION Spec
PROPERTY RemovedByWinner
