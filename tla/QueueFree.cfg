\* One thread that enqueues, two that dequeue, whatever overlaps.
CONSTANTS
  Enqueuer = {e}
  Dequeuer = {d, s}
  Thread = {e, d, s}
  Capacity = 3
  CountMod = 16
  SizeMod = 16
  Null = null
  Junk = junk
  InUse = 1
  UserData <- AnyNode
  SpuriousCAS = {}
  Slow = s
  MaxCalls <- OneRound
SPECIFICATION QSpec
INVARIANT NothingInvented
