SPECIFICATION FairSpec
CONSTANTS
  c1 = c1
  c2 = c2
  Host = {1, 2}
  Priority <- LowFirst
  RepMode <- OnWrite
  NoHost = NoHost
  Cxn <- TwoCxns
  NoCxn = NoCxn
  MaxRN = 2
  MaxHb = 1
  Uses <- PairUses
INVARIANTS
  TypeOK
  ReplicasComplete
PROPERTIES
  ReplicasConverge
  DualResolves
\* Hosts may be left stopped, and an application may have nothing to push.
CHECK_DEADLOCK FALSE
