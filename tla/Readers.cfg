\* Copies are made by two threads and by thrd_resume; a copying thread may be
\* suspended.  Two copies make the word read UINT32_MAX.
CONSTANTS
  copier = r
  updater = u
  controller = k
  Thread = {r, u, k}
  Controller = {k}
  Suspendable = {r}
  Updating = {u}
  Cell = {c}
  Word = {1, 2}
  Value = {0, 1}
  Initial = 0
  Busy = 2
  None = none
  MaxCalls <- OneCopy
SPECIFICATION FairSpec
INVARIANTS
  TypeOK
  WordExact
  CopiesWhole
  ResumeKept
PROPERTIES
  ImplementsRegister
  CallsReturn
