SPECIFICATION Spec
CONSTANTS
  c1 = c1
  c2 = c2
  Host = {1, 2}
  Priority <- LowFirst
  RepMode <- InPut
  NoHost = NoHost
  Cxn <- TwoCxns
  NoCxn = NoCxn
  MaxRN = 1
  MaxHb = 1
  Uses <- SilentUses
INVARIANTS
  ReplicasComplete
\* Hosts may be left stopped, and an application may have nothing to push.
CHECK_DEADLOCK FALSE
