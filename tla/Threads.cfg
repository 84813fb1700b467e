\* Two clients, two pthread_t values; a third call may get a bucket whose last
\* thread still reads it.  A client then may wait for ever.
CONSTANTS
  Client = {c, d}
  Thr = {p, q}
  NumBuckets = 1
  MaxThreads = 2
  KeysMax = 1
  Namer = {c}
  MayFail = TRUE
  None = none
  MaxCalls = 3
SPECIFICATION FairSpec
INVARIANTS
  TypeOK
  SemaphoreOwned
PROPERTIES
  PromiseAlive
  CreateReturns
CHECK_DEADLOCK FALSE
