\* Three getters, one of which may be cancelled, and a poller.
CONSTANTS
  Getter = {g1, g2, g3}
  Poller = {q}
  Setter = s
  Cancelled = {g3}
  Value = {v1, v2}
  Zero = z
  None = None
\* A cancelled getter keeps the mutex and everybody stops there.
CHECK_DEADLOCK FALSE
SPECIFICATION FairSpec
INVARIANTS
  TypeOK
  GetsTheValue
  StorageReleased
PROPERTIES
  SetReturnsUnlessDied
  GetReturns
