\* Two threads that enqueue, one of which dequeues, too.
CONSTANTS
  Enqueuer = {e1, e2}
  Dequeuer = {e2}
  Thread = {e1, e2}
  Capacity = 3
  CountMod = 16
  SizeMod = 16
  Null = null
  Junk = junk
  InUse = 1
  UserData <- AnyNode
  SpuriousCAS = {}
  Slow = e1
  MaxCalls <- TwoCalls
CONSTRAINT NoOverlap
SPECIFICATION QSpec
INVARIANT ValuesKept
