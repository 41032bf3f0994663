SPECIFICATION Spec
CONSTANTS
  c1 = c1
  c2 = c2
  Host = {1, 2}
  Priority <- HighFirst
  RepMode <- InPut
  NoHost = NoHost
  Cxn <- TwoCxns
  NoCxn = NoCxn
  MaxRN = 1
  MaxHb = 1
  Uses <- BrokenUses
INVARIANTS
  MasterAgreed
  ReplicatesToNext
  OneHistory
PROPERTIES
  PutIsKept
\* Hosts may be left stopped, and an application may have nothing to push.
CHECK_DEADLOCK FALSE
