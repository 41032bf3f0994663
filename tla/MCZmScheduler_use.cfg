SPECIFICATION FairSpec
CONSTANTS
  a = a
  m1 = m1
  m2 = m2
  t1 = t1
  Producer = {a}
  Caller = {m1, m2}
  Timer = {t1}
  NThreads = 1
  RingSize = 1
  Timeout = TRUE
  Uses <- AllUses
  Drained = Drained
  None = None
INVARIANTS
  TypeOK
  NothingLost
  CancelledNeverRuns
PROPERTIES
  RunsInOrder
  CallsEnd
\* The scheduler may be left stopped or running for good.
CHECK_DEADLOCK FALSE
