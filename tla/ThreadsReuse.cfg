\* The capacities of the code; the twelfth call gets the first bucket again.
CONSTANTS
  Client = {c}
  Thr = {p, q}
  NumBuckets = 10
  MaxThreads = 256
  KeysMax = 1024
  Namer = {}
  MayFail = FALSE
  None = none
  MaxCalls = 12
SPECIFICATION Spec
INVARIANT RunsWhatWasPassed
