\* One thread that enqueues, two that dequeue; a compare-and-swap of the first
\* may fail without reason.
CONSTANTS
  Enqueuer = {e}
  Dequeuer = {d, s}
  Thread = {e, d, s}
  Capacity = 3
  CountMod = 16
  SizeMod = 16
  Null = null
  Junk = junk
  InUse = 1
  UserData <- AnyNode
  SpuriousCAS = {e}
  Slow = s
  MaxCalls <- OneRound
CONSTRAINTS
  NoOverlap
  LagsEarly
SPECIFICATION QSpec
INVARIANTS
  QTypeOK
  FragmentsKept
  NoSpuriousENOENT
PROPERTIES
  ImplementsFifo
  UsesPool
