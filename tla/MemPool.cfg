\* Two threads, four calls each; users store zeros among other things.
CONSTANTS
  Thread = {t1, t2}
  Capacity = 2
  CountMod = 16
  SizeMod = 16
  Null = null
  Junk = junk
  InUse = 0
  UserData <- AnyData
  SpuriousCAS = {t1, t2}
  MaxCalls <- FourCalls
CONSTRAINT NoOverlap
SYMMETRY ThreadSymmetry
SPECIFICATION Spec
INVARIANTS
  TypeOK
  FreeListSound
  FreeableExact
  NoSpuriousENOMEM
PROPERTY UserMemSafe
