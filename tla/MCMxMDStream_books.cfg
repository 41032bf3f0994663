SPECIFICATION Spec
CONSTANTS
  x = x
  y = y
  z = z
  Ids = {x, y, z}
  UniformRanks = TRUE
  MaxPrice = 2
  MaxQty = 2
  MaxCalls = 4
  MaxQueued = 2
INVARIANTS
  TypeOK
  BooksAddUp
  SnapshotAgrees
PROPERTY KeepsPriority
SYMMETRY MCSymmetry
\* The feed may have nothing more to say.
CHECK_DEADLOCK FALSE
